---- MODULE Spec2Model ----
(***************************************************************************)
(* GitPilot (VS Code extension): the command executor, the command         *)
(* generator and the two orchestrators, as state machines.                 *)
(*                                                                         *)
(* Text that the code scans (commands, patterns, provider replies) is a    *)
(* sequence of one-character strings.  A fixed message that the code only  *)
(* builds and never scans is one element of such a sequence, so that a     *)
(* template literal is a concatenation.                                    *)
(***************************************************************************)
EXTENDS Integers, Sequences, FiniteSets, TLC

VARIABLES
    call,       \* harness: the GitExecutor method called and its arguments
    exec,       \* harness: the state of that call (see executeEnter)
    destr,      \* harness: what isDestructiveCommand returned, <<>> before
    gcall,      \* harness: the AIEngine, the arguments of generateCommand and
                \* how axios.post ended ("none", "resolved", "notext", "null", "rejected")
    gen,        \* harness: the state of that call (see generateEnter)
    req,        \* orchestrators: the request in progress (see NoRequest)
    parse,      \* harness: one call of parseAIResponse (see NoParse)
    snap,       \* harness: one call of analyzeContext (see NoSnapshot)
    reqs,       \* the panel and the palette together: the requests in
                \* progress, one per slot (see NoRequest)
    panel       \* the webview of the panel (see NoPanel)

execVars == <<call, exec, destr>>
genVars == <<gcall, gen>>
vars == <<call, exec, destr, gcall, gen, req, parse, snap, reqs, panel>>

----------------------------------------------------------------------------
(* Characters that cannot be written inside a TLA+ string.                 *)
BACKTICK == "BACKTICK"
NL == "\n"
TAB == "\t"
CR == "\r"
DQUOTE == "DQUOTE"
BACKSLASH == "BACKSLASH"
BACKSPACE == "U+0008"
FORMFEED == "U+000C"
WARNSIGN == "U+26A0"
VS16 == "U+FE0F"

(* String.prototype.trim strips white space and line terminators.          *)
WhiteSpace == {" ", TAB, NL, CR}

UpperCase ==
    [c \in {"A", "B", "C", "D", "E", "F", "G", "H", "I", "J", "K", "L", "M",
            "N", "O", "P", "Q", "R", "S", "T", "U", "V", "W", "X", "Y", "Z"} |->
        CASE c = "A" -> "a" [] c = "B" -> "b" [] c = "C" -> "c" [] c = "D" -> "d"
          [] c = "E" -> "e" [] c = "F" -> "f" [] c = "G" -> "g" [] c = "H" -> "h"
          [] c = "I" -> "i" [] c = "J" -> "j" [] c = "K" -> "k" [] c = "L" -> "l"
          [] c = "M" -> "m" [] c = "N" -> "n" [] c = "O" -> "o" [] c = "P" -> "p"
          [] c = "Q" -> "q" [] c = "R" -> "r" [] c = "S" -> "s" [] c = "T" -> "t"
          [] c = "U" -> "u" [] c = "V" -> "v" [] c = "W" -> "w" [] c = "X" -> "x"
          [] c = "Y" -> "y" [] c = "Z" -> "z"]

toLowerCase(s) ==
    [i \in 1..Len(s) |-> IF s[i] \in DOMAIN UpperCase THEN UpperCase[s[i]] ELSE s[i]]

SetMin(S) == CHOOSE x \in S : \A y \in S : x <= y
SetMax(S) == CHOOSE x \in S : \A y \in S : y <= x

trim(s) ==
    LET kept == {i \in 1..Len(s) : s[i] \notin WhiteSpace}
    IN  IF kept = {} THEN <<>> ELSE SubSeq(s, SetMin(kept), SetMax(kept))

startsWith(s, p) == Len(p) <= Len(s) /\ SubSeq(s, 1, Len(p)) = p

includes(s, p) ==
    \E i \in 1..(Len(s) - Len(p) + 1) : SubSeq(s, i, i + Len(p) - 1) = p

git == <<"g", "i", "t">>

----------------------------------------------------------------------------
(* GitExecutor                                                             *)

destructiveCommands ==
    << [key |-> <<"r", "e", "s", "e", "t", " ", "-", "-", "h", "a", "r", "d">>,
        warning |-> "This will discard all uncommitted changes"],
       [key |-> <<"c", "l", "e", "a", "n", " ", "-", "f">>,
        warning |-> "This will delete untracked files permanently"],
       [key |-> <<"p", "u", "s", "h", " ", "-", "-", "f", "o", "r", "c", "e">>,
        warning |-> "This will overwrite remote history"],
       [key |-> <<"r", "e", "b", "a", "s", "e">>,
        warning |-> "This will rewrite commit history"],
       [key |-> <<"c", "h", "e", "r", "r", "y", "-", "p", "i", "c", "k">>,
        warning |-> "This may create conflicts"],
       [key |-> <<"m", "e", "r", "g", "e", " ", "-", "-", "n", "o", "-", "f", "f">>,
        warning |-> "This will create a merge commit"] >>

(* The list without its last entry.                                        *)
dangerousChars_NoLessThan ==
    << <<";">>, <<"&", "&">>, <<"|", "|">>, <<"|">>, <<BACKTICK>>, <<"$">>,
       <<">">> >>

dangerousChars ==
    << <<";">>, <<"&", "&">>, <<"|", "|">>, <<"|">>, <<BACKTICK>>, <<"$">>,
       <<">">>, <<"<">> >>

(* cleanCommand without its first statement, command = command.trim().     *)
cleanCommand_NoTrim(command) ==
    LET prefixed == IF ~startsWith(command, git)
                    THEN git \o <<" ">> \o command
                    ELSE command
        found == {i \in 1..Len(dangerousChars) : includes(prefixed, dangerousChars[i])}
    IN  IF found # {}
        THEN [threw |-> TRUE, char |-> dangerousChars[SetMin(found)], value |-> <<>>]
        ELSE [threw |-> FALSE, char |-> <<>>, value |-> prefixed]

(* cleanCommand: [threw, char, value]; threw with the first dangerous      *)
(* entry found, else the normalized command in value.                      *)
cleanCommand(command) ==
    LET trimmed == trim(command)
        prefixed == IF ~startsWith(trimmed, git)
                    THEN git \o <<" ">> \o trimmed
                    ELSE trimmed
        found == {i \in 1..Len(dangerousChars) : includes(prefixed, dangerousChars[i])}
    IN  IF found # {}
        THEN [threw |-> TRUE, char |-> dangerousChars[SetMin(found)], value |-> <<>>]
        ELSE [threw |-> FALSE, char |-> <<>>, value |-> prefixed]

RECURSIVE checkDestructiveFrom(_, _, _)
checkDestructiveFrom(command, i, warnings) ==
    IF i > Len(destructiveCommands)
    THEN warnings
    ELSE checkDestructiveFrom(command, i + 1,
            IF includes(toLowerCase(command), destructiveCommands[i].key)
            THEN Append(warnings, <<WARNSIGN, VS16, " ", destructiveCommands[i].warning>>)
            ELSE warnings)

checkDestructiveOperations(command) == checkDestructiveFrom(command, 1, <<>>)

(* isDestructiveCommand without toLowerCase.                               *)
isDestructiveCommand_CaseSensitive(command) ==
    \E i \in 1..Len(destructiveCommands) :
        includes(command, destructiveCommands[i].key)

isDestructiveCommand(command) ==
    \E i \in 1..Len(destructiveCommands) :
        includes(toLowerCase(command), destructiveCommands[i].key)

(* The state of one call of execute: pc is "execAsync" while the call      *)
(* awaits the subprocess, "returned" or "thrown" once it has settled;      *)
(* spawned lists the command lines handed to execAsync; ret holds the      *)
(* ExecutionResult (at most one), thrown the Error message (at most one).  *)
NoCall ==
    [pc |-> "idle", cleanCommand |-> <<>>, warnings |-> <<>>, spawned |-> <<>>,
     ret |-> <<>>, thrown |-> <<>>]

(* The guard of execute without its test of the prefix.                    *)
executeGuard_OnlyEmpty(command) == command = <<>>

executeGuard(command) == command = <<>> \/ ~startsWith(trim(command), git)

(* execute, from its entry to its first return, throw or await.            *)
executeEnter(command, dryRun) ==
    IF executeGuard(command)
    THEN [NoCall EXCEPT !.pc = "returned",
            !.ret = << [success |-> FALSE, output |-> <<>>,
                        error |-> <<"Invalid Git command">>, executed |-> FALSE] >>]
    ELSE LET cleaned == cleanCommand(command)
             warnings == checkDestructiveOperations(cleaned.value)
         IN  IF cleaned.threw
             THEN [NoCall EXCEPT !.pc = "thrown",
                     !.thrown = << <<"Potentially dangerous character detected: ">>
                                   \o cleaned.char >>]
             ELSE IF dryRun
             THEN [NoCall EXCEPT !.pc = "returned",
                     !.cleanCommand = cleaned.value, !.warnings = warnings,
                     !.ret = << [success |-> TRUE,
                                 output |-> <<"Would execute: ">> \o cleaned.value,
                                 error |-> <<>>, executed |-> FALSE,
                                 warnings |-> warnings] >>]
             ELSE [NoCall EXCEPT !.pc = "execAsync",
                     !.cleanCommand = cleaned.value, !.warnings = warnings,
                     !.spawned = <<cleaned.value>>]

(* previewCommand with dryRun left false.                                  *)
previewCommand_NotDry(command) == executeEnter(command, FALSE)

(* previewCommand, up to its first return, throw or await.                 *)
previewCommand(command) == executeEnter(command, TRUE)

(* The result of a successful run without its warnings.                    *)
executeResolved_NoWarnings(e, stdout, stderr) ==
    [e EXCEPT !.pc = "returned",
        !.ret = << [success |-> TRUE, output |-> stdout,
                    error |-> IF stderr # <<>> THEN stderr ELSE <<>>,
                    executed |-> TRUE,
                    return_code |-> [kind |-> "number", num |-> 0]] >>]

(* execAsync resolved: the subprocess exited with status zero.             *)
executeResolved(e, stdout, stderr) ==
    [e EXCEPT !.pc = "returned",
        !.ret = << [success |-> TRUE, output |-> stdout,
                    error |-> IF stderr # <<>> THEN stderr ELSE <<>>,
                    executed |-> TRUE, warnings |-> e.warnings,
                    return_code |-> [kind |-> "number", num |-> 0]] >>]

(* `a || b` on strings: an absent or empty a gives b.                      *)
OrElse(a, b) == IF a # <<>> THEN a ELSE b

(* execute without the catch around execAsync.                             *)
executeRejected_Rethrow(e, error) ==
    [e EXCEPT !.pc = "thrown", !.thrown = <<error.message>>]

(* execAsync rejected with error: a non-zero exit, the timeout's kill or a *)
(* spawn failure.  error.code is a number, a string or null.               *)
executeRejected(e, error) ==
    [e EXCEPT !.pc = "returned",
        !.ret = << [success |-> FALSE, output |-> OrElse(error.stdout, <<>>),
                    error |-> OrElse(error.stderr,
                                     OrElse(error.message, <<"Command execution failed">>)),
                    executed |-> FALSE, warnings |-> e.warnings,
                    return_code |->
                        IF error.code.kind = "null"
                           \/ (error.code.kind = "number" /\ error.code.num = 0)
                        THEN [kind |-> "number", num |-> 1]
                        ELSE error.code] >>]

----------------------------------------------------------------------------
(* JavaScript values, as far as the code tells them apart: t is the type,  *)
(* s the characters of a string, n the value of a number (1, 0 for true,   *)
(* false).  An object or a function that is only passed on has no content. *)
Str(s) == [t |-> "string", s |-> s, n |-> 0]
Num(n) == [t |-> "number", s |-> <<>>, n |-> n]
Bool(b) == [t |-> "boolean", s |-> <<>>, n |-> IF b THEN 1 ELSE 0]
Null == [t |-> "null", s |-> <<>>, n |-> 0]
Undefined == [t |-> "undefined", s |-> <<>>, n |-> 0]
Object == [t |-> "object", s |-> <<>>, n |-> 0]

(* !v                                                                      *)
Falsy(v) ==
    \/ v.t \in {"null", "undefined"}
    \/ v.t = "string" /\ v.s = <<>>
    \/ v.t \in {"number", "boolean"} /\ v.n = 0

----------------------------------------------------------------------------
(* JSON.parse, on texts without \u escapes, fractions and exponents.       *)
(* A parse gives [ok, val, members, next]: val the value read, members the *)
(* key/value pairs when it is an object, next the index after it.          *)
Digits == {"0", "1", "2", "3", "4", "5", "6", "7", "8", "9"}
DigitValue ==
    [d \in Digits |->
        CASE d = "0" -> 0 [] d = "1" -> 1 [] d = "2" -> 2 [] d = "3" -> 3
          [] d = "4" -> 4 [] d = "5" -> 5 [] d = "6" -> 6 [] d = "7" -> 7
          [] d = "8" -> 8 [] d = "9" -> 9]

JsonWhiteSpace == {" ", TAB, NL, CR}
JsonEscapes ==
    [c \in {DQUOTE, BACKSLASH, "/", "b", "f", "n", "r", "t"} |->
        CASE c = "n" -> NL [] c = "r" -> CR [] c = "t" -> TAB
          [] c = "b" -> BACKSPACE [] c = "f" -> FORMFEED [] OTHER -> c]

JsonFail == [ok |-> FALSE, val |-> Undefined, members |-> <<>>, next |-> 0]
JsonOk(v, ms, n) == [ok |-> TRUE, val |-> v, members |-> ms, next |-> n]

RECURSIVE skipWs(_, _)
skipWs(t, i) == IF i <= Len(t) /\ t[i] \in JsonWhiteSpace THEN skipWs(t, i + 1) ELSE i

(* The characters of a string, from the index after its opening quote.     *)
RECURSIVE jsonString(_, _, _)
jsonString(t, i, acc) ==
    IF i > Len(t) THEN JsonFail
    ELSE IF t[i] = DQUOTE THEN JsonOk(Str(acc), <<>>, i + 1)
    ELSE IF t[i] = BACKSLASH
    THEN IF i + 1 <= Len(t) /\ t[i + 1] \in DOMAIN JsonEscapes
         THEN jsonString(t, i + 2, Append(acc, JsonEscapes[t[i + 1]]))
         ELSE JsonFail
    ELSE IF t[i] \in {NL, CR, TAB} THEN JsonFail
    ELSE jsonString(t, i + 1, Append(acc, t[i]))

RECURSIVE jsonDigits(_, _, _)
jsonDigits(t, i, acc) ==
    IF i <= Len(t) /\ t[i] \in Digits
    THEN jsonDigits(t, i + 1, 10 * acc + DigitValue[t[i]])
    ELSE JsonOk(Num(acc), <<>>, i)

jsonNumber(t, i) ==
    LET neg == t[i] = "-"
        d == IF neg THEN i + 1 ELSE i
    IN  IF d > Len(t) \/ t[d] \notin Digits THEN JsonFail
        ELSE IF t[d] = "0"
        THEN JsonOk(Num(0), <<>>, d + 1)
        ELSE LET r == jsonDigits(t, d, 0)
             IN  JsonOk(Num(IF neg THEN 0 - r.val.n ELSE r.val.n), <<>>, r.next)

jsonLiteral(t, i, word, v) ==
    IF i + Len(word) - 1 <= Len(t) /\ SubSeq(t, i, i + Len(word) - 1) = word
    THEN JsonOk(v, <<>>, i + Len(word))
    ELSE JsonFail

RECURSIVE jsonValue(_, _)
RECURSIVE jsonMembers(_, _, _)
RECURSIVE jsonElements(_, _)

(* A value, from its first character.                                      *)
jsonValue(t, i) ==
    IF i > Len(t) THEN JsonFail
    ELSE IF t[i] = "{"
    THEN LET j == skipWs(t, i + 1)
         IN  IF j <= Len(t) /\ t[j] = "}"
             THEN JsonOk(Object, <<>>, j + 1)
             ELSE jsonMembers(t, j, <<>>)
    ELSE IF t[i] = "["
    THEN LET j == skipWs(t, i + 1)
         IN  IF j <= Len(t) /\ t[j] = "]"
             THEN JsonOk(Object, <<>>, j + 1)
             ELSE jsonElements(t, j)
    ELSE IF t[i] = DQUOTE THEN jsonString(t, i + 1, <<>>)
    ELSE IF t[i] = "n" THEN jsonLiteral(t, i, <<"n", "u", "l", "l">>, Null)
    ELSE IF t[i] = "t" THEN jsonLiteral(t, i, <<"t", "r", "u", "e">>, Bool(TRUE))
    ELSE IF t[i] = "f" THEN jsonLiteral(t, i, <<"f", "a", "l", "s", "e">>, Bool(FALSE))
    ELSE IF t[i] \in Digits \cup {"-"} THEN jsonNumber(t, i)
    ELSE JsonFail

(* The members of an object, from the first character of a key.            *)
jsonMembers(t, i, members) ==
    IF i > Len(t) \/ t[i] # DQUOTE THEN JsonFail
    ELSE LET k == jsonString(t, i + 1, <<>>)
         IN  IF ~k.ok THEN JsonFail
             ELSE LET c == skipWs(t, k.next)
                  IN  IF c > Len(t) \/ t[c] # ":" THEN JsonFail
                      ELSE LET v == jsonValue(t, skipWs(t, c + 1))
                           IN  IF ~v.ok THEN JsonFail
                               ELSE LET d == skipWs(t, v.next)
                                        ms == Append(members,
                                                [key |-> k.val.s, value |-> v.val])
                                    IN  IF d > Len(t) THEN JsonFail
                                        ELSE IF t[d] = "}" THEN JsonOk(Object, ms, d + 1)
                                        ELSE IF t[d] = ","
                                        THEN jsonMembers(t, skipWs(t, d + 1), ms)
                                        ELSE JsonFail

(* The elements of an array, from the first character of an element.       *)
jsonElements(t, i) ==
    LET v == jsonValue(t, i)
    IN  IF ~v.ok THEN JsonFail
        ELSE LET d == skipWs(t, v.next)
             IN  IF d > Len(t) THEN JsonFail
                 ELSE IF t[d] = "]" THEN JsonOk(Object, <<>>, d + 1)
                 ELSE IF t[d] = "," THEN jsonElements(t, skipWs(t, d + 1))
                 ELSE JsonFail

(* JSON.parse(text): ok is FALSE where it throws a SyntaxError.            *)
JSONparse(text) ==
    LET v == jsonValue(text, skipWs(text, 1))
    IN  IF v.ok /\ skipWs(text, v.next) > Len(text) THEN v ELSE JsonFail

(* obj[key] of a parsed object: the last member of that name.              *)
property(members, key) ==
    LET at == {i \in 1..Len(members) : members[i].key = key}
    IN  IF at = {} THEN Undefined ELSE members[SetMax(at)].value

----------------------------------------------------------------------------
(* AIEngine.parseAIResponse                                                *)

(* What a caller reads of the object returned.                             *)
AIResponse(command, explanation, warning) ==
    [command |-> command, explanation |-> explanation, warning |-> warning]

asAIResponse(parsed) ==
    AIResponse(property(parsed.members, <<"c", "o", "m", "m", "a", "n", "d">>),
               property(parsed.members,
                        <<"e", "x", "p", "l", "a", "n", "a", "t", "i", "o", "n">>),
               property(parsed.members, <<"w", "a", "r", "n", "i", "n", "g">>))

(* response.match(/\{[^}]*"command"[^}]*\}/s): the leftmost "{" whose text *)
(* up to the next "}" holds "command" in quotes; <<>> when there is none.  *)
jsonMatch(response) ==
    LET quoted == <<DQUOTE, "c", "o", "m", "m", "a", "n", "d", DQUOTE>>
        closing(i) == {j \in (i + 1)..Len(response) : response[j] = "}"}
        starts == {i \in 1..Len(response) :
                     /\ response[i] = "{"
                     /\ closing(i) # {}
                     /\ includes(SubSeq(response, i + 1, SetMin(closing(i)) - 1), quoted)}
    IN  IF starts = {} THEN <<>>
        ELSE SubSeq(response, SetMin(starts), SetMin(closing(SetMin(starts))))

(* response.split('\n')                                                    *)
RECURSIVE split(_)
split(text) ==
    LET breaks == {i \in 1..Len(text) : text[i] = NL}
    IN  IF breaks = {} THEN <<text>>
        ELSE <<SubSeq(text, 1, SetMin(breaks) - 1)>>
                \o split(SubSeq(text, SetMin(breaks) + 1, Len(text)))

(* trimmedLine.match(/`(git [^`]+)`/): group 1 of the leftmost match,      *)
(* <<>> when there is none.                                                *)
gitMatch(line) ==
    LET opening == <<BACKTICK, "g", "i", "t", " ">>
        closing(i) == {j \in (i + 5)..Len(line) : line[j] = BACKTICK}
        starts == {i \in 1..Len(line) :
                     /\ i + 4 <= Len(line)
                     /\ SubSeq(line, i, i + 4) = opening
                     /\ closing(i) # {}
                     /\ SetMin(closing(i)) > i + 5}
    IN  IF starts = {} THEN <<>>
        ELSE SubSeq(line, SetMin(starts) + 1, SetMin(closing(SetMin(starts))) - 1)

(* The body of the loop without its test of command: every candidate line  *)
(* sets the command.                                                       *)
parseLine_LastCommandWins(acc, line) ==
    LET trimmedLine == trim(line)
        command ==
            IF startsWith(trimmedLine, <<"g", "i", "t", " ">>) THEN trimmedLine
            ELSE IF includes(trimmedLine, <<BACKTICK, "g", "i", "t", " ">>)
                    /\ gitMatch(trimmedLine) # <<>>
            THEN gitMatch(trimmedLine)
            ELSE acc.command
    IN  IF \/ startsWith(trimmedLine, <<"W", "a", "r", "n", "i", "n", "g", ":">>)
           \/ startsWith(trimmedLine, <<"N", "o", "t", "e", ":">>)
           \/ includes(trimmedLine, <<WARNSIGN, VS16>>)
        THEN [acc EXCEPT !.command = command, !.warning = trimmedLine]
        ELSE IF includes(toLowerCase(trimmedLine), <<"w", "a", "r", "n", "i", "n", "g">>)
                /\ acc.warning = <<>>
        THEN [acc EXCEPT !.command = command, !.warning = trimmedLine]
        ELSE IF /\ trimmedLine # <<>>
                /\ command = <<>>
                /\ ~startsWith(trimmedLine, <<BACKTICK, BACKTICK, BACKTICK>>)
                /\ ~startsWith(trimmedLine, <<BACKTICK>>)
                /\ ~includes(trimmedLine, <<"g", "i", "t", " ">>)
        THEN [acc EXCEPT !.command = command,
                         !.explanation = acc.explanation \o trimmedLine \o <<" ">>]
        ELSE [acc EXCEPT !.command = command]

(* The body of the loop over the lines; acc is [command, explanation,      *)
(* warning], command and warning <<>> while they are null.                 *)
parseLine(acc, line) ==
    LET trimmedLine == trim(line)
        command ==
            IF acc.command # <<>> THEN acc.command
            ELSE IF startsWith(trimmedLine, <<"g", "i", "t", " ">>) THEN trimmedLine
            ELSE IF includes(trimmedLine, <<BACKTICK, "g", "i", "t", " ">>)
            THEN gitMatch(trimmedLine)
            ELSE <<>>
    IN  IF \/ startsWith(trimmedLine, <<"W", "a", "r", "n", "i", "n", "g", ":">>)
           \/ startsWith(trimmedLine, <<"N", "o", "t", "e", ":">>)
           \/ includes(trimmedLine, <<WARNSIGN, VS16>>)
        THEN [acc EXCEPT !.command = command, !.warning = trimmedLine]
        ELSE IF includes(toLowerCase(trimmedLine), <<"w", "a", "r", "n", "i", "n", "g">>)
                /\ acc.warning = <<>>
        THEN [acc EXCEPT !.command = command, !.warning = trimmedLine]
        ELSE IF /\ trimmedLine # <<>>
                /\ command = <<>>
                /\ ~startsWith(trimmedLine, <<BACKTICK, BACKTICK, BACKTICK>>)
                /\ ~startsWith(trimmedLine, <<BACKTICK>>)
                /\ ~includes(trimmedLine, <<"g", "i", "t", " ">>)
        THEN [acc EXCEPT !.command = command,
                         !.explanation = acc.explanation \o trimmedLine \o <<" ">>]
        ELSE [acc EXCEPT !.command = command]

RECURSIVE parseLines(_, _)
parseLines(acc, lines) ==
    IF lines = <<>> THEN acc ELSE parseLines(parseLine(acc, Head(lines)), Tail(lines))

(* command.trim().replace(/^`|`$/g, '')                                    *)
stripBackticks(command) ==
    LET c == trim(command)
        a == IF c # <<>> /\ Head(c) = BACKTICK THEN Tail(c) ELSE c
    IN  IF a # <<>> /\ a[Len(a)] = BACKTICK THEN SubSeq(a, 1, Len(a) - 1) ELSE a

(* The text parsing fallback.                                              *)
parseText(response) ==
    LET acc == parseLines([command |-> <<>>, explanation |-> <<>>, warning |-> <<>>],
                          split(response))
        stripped == stripBackticks(acc.command)
        command == IF startsWith(stripped, <<"g", "i", "t", " ">>)
                   THEN stripped
                   ELSE <<"g", "i", "t", " ">> \o stripped
    IN  AIResponse(IF acc.command # <<>> THEN Str(command) ELSE Null,
                   Str(trim(acc.explanation)),
                   IF acc.warning # <<>> THEN Str(acc.warning) ELSE Null)

(* parseAIResponse(response); response is the value of                     *)
(* `<text payload> || ""`, which need not be a string.                     *)
parseAIResponse(response) ==
    IF response.t # "string"
    THEN AIResponse(Null, response, Str(<<"Failed to parse AI response">>))
    ELSE LET matched == jsonMatch(response.s)
             first == JSONparse(matched)
             whole == JSONparse(trim(response.s))
         IN  IF matched # <<>> /\ first.ok THEN asAIResponse(first)
             ELSE IF startsWith(trim(response.s), <<"{">>) /\ whole.ok
             THEN asAIResponse(whole)
             ELSE parseText(response.s)

(* The state of one call of parseAIResponse: response is its argument,     *)
(* ret holds the value returned (at most one).                             *)
NoParse == [pc |-> "idle", response |-> Undefined, ret |-> <<>>]

----------------------------------------------------------------------------
(* ContextAnalyzer.  A repository is what its queries answer: for each     *)
(* query, whether execSync returns (ok) and the output it returns.         *)

(* The count without its "- 1".                                            *)
countLines_NoMinusOne(out) == Len(split(trim(out)))

(* <output>.toString().trim().split('\n').length - 1                       *)
countLines(out) == Len(split(trim(out))) - 1

getCurrentBranch(repo) ==
    IF repo.revParse.ok
    THEN OrElse(trim(repo.revParse.out), <<"unknown">>)
    ELSE <<"unknown">>

(* origin.match(/<phrase> (\d+) commit/): [matched, n], n the parseInt of  *)
(* group 1 of the leftmost match.                                          *)
commitCountMatch(origin, phrase) ==
    LET digitsEnd(i) == SetMin({j \in i..(Len(origin) + 1) :
                                    j > Len(origin) \/ origin[j] \notin Digits})
        tail == <<" ", "c", "o", "m", "m", "i", "t">>
        starts == {i \in 1..Len(origin) :
                     /\ i + Len(phrase) <= Len(origin)
                     /\ SubSeq(origin, i, i + Len(phrase) - 1) = phrase
                     /\ digitsEnd(i + Len(phrase)) > i + Len(phrase)
                     /\ digitsEnd(i + Len(phrase)) + Len(tail) - 1 <= Len(origin)
                     /\ SubSeq(origin, digitsEnd(i + Len(phrase)),
                               digitsEnd(i + Len(phrase)) + Len(tail) - 1) = tail}
    IN  IF starts = {} THEN [matched |-> FALSE, n |-> 0]
        ELSE [matched |-> TRUE,
              n |-> jsonDigits(origin, SetMin(starts) + Len(phrase), 0).val.n]

getRemoteStatus(repo) ==
    IF ~repo.remote.ok THEN [has_remote |-> FALSE]
    ELSE LET aheadMatch == commitCountMatch(repo.remote.out,
                 <<"l", "o", "c", "a", "l", " ", "o", "u", "t", " ", "o", "f", " ",
                   "d", "a", "t", "e", " ", "b", "y", " ">>)
             behindMatch == commitCountMatch(repo.remote.out,
                 <<"b", "r", "a", "n", "c", "h", "e", "s", " ", "o", "u", "t", " ",
                   "o", "f", " ", "d", "a", "t", "e", " ", "b", "y", " ">>)
         IN  [has_remote |-> TRUE,
              ahead |-> IF aheadMatch.matched THEN aheadMatch.n ELSE 0,
              behind |-> IF behindMatch.matched THEN behindMatch.n ELSE 0,
              up_to_date |-> ~aheadMatch.matched /\ ~behindMatch.matched]

(* <output>.toString().split('|')                                          *)
RECURSIVE splitBar(_)
splitBar(text) ==
    LET bars == {i \in 1..Len(text) : text[i] = "|"}
    IN  IF bars = {} THEN <<text>>
        ELSE <<SubSeq(text, 1, SetMin(bars) - 1)>>
                \o splitBar(SubSeq(text, SetMin(bars) + 1, Len(text)))

(* Whether new Date(text) is a valid date; the dates git prints begin with *)
(* the year, and no other text drawn here begins with a digit.             *)
validDate(text) == text # <<>> /\ Head(text) \in Digits

(* getLastCommitInfo: {} (no field) when the query, a missing part or      *)
(* toISOString of an invalid date throws.                                  *)
getLastCommitInfo(repo) ==
    IF ~repo.log.ok THEN [empty |-> TRUE]
    ELSE LET commit == splitBar(repo.log.out)
         IN  IF Len(commit) < 4 \/ ~validDate(trim(commit[4]))
             THEN [empty |-> TRUE]
             ELSE [sha |-> trim(commit[1]), message |-> trim(commit[2]),
                   author |-> trim(commit[3]),
                   date |-> <<"toISOString">> \o trim(commit[4])]

(* isGitRepo: whether `git status` ran without an error.                   *)
isGitRepo(repo) == repo.status.ok

(* analyzeContext after its probe: the try block and its catch.            *)
analyzeContextTry(repo) ==
    IF \/ ~repo.porcelain.ok \/ ~repo.cached.ok \/ ~repo.diff.ok
       \/ ~repo.lsFiles.ok \/ ~repo.symbolicRef.ok \/ ~repo.stash.ok
    THEN [error |-> <<"Failed to analyze context: ", "Error: Command failed">>]
    ELSE [branch |-> getCurrentBranch(repo),
          is_dirty |-> trim(repo.porcelain.out) # <<>>,
          staged_files |-> countLines(repo.cached.out),
          unstaged_files |-> countLines(repo.diff.out),
          untracked_files |-> countLines(repo.lsFiles.out),
          is_detached |-> trim(repo.symbolicRef.out) # <<>>,
          remote_status |-> getRemoteStatus(repo),
          last_commit |-> getLastCommitInfo(repo),
          stash_count |-> countLines(repo.stash.out)]

(* analyzeContext without its probe.                                       *)
analyzeContext_NoProbe(repo) == analyzeContextTry(repo)

analyzeContext(repo) ==
    IF ~isGitRepo(repo)
    THEN [error |-> <<"Not a Git repository">>]
    ELSE analyzeContextTry(repo)

(* The queries of the try block, in the order of their execSync calls, and *)
(* those that sit in a try of their own (getCurrentBranch,                 *)
(* getRemoteStatus, getLastCommitInfo).                                    *)
fieldQueries ==
    <<"revParse", "porcelain", "cached", "diff", "lsFiles", "symbolicRef", "remote",
      "log", "stash">>

guardedQueries == {"revParse", "remote", "log"}

(* The queries one call of analyzeContext issues: the probe, then the      *)
(* field queries up to the first one whose failure reaches the catch of    *)
(* analyzeContext.                                                         *)
analyzeQueries(repo) ==
    IF ~isGitRepo(repo) THEN <<"status">>
    ELSE LET aborting == {i \in 1..Len(fieldQueries) :
                            /\ fieldQueries[i] \notin guardedQueries
                            /\ ~repo[fieldQueries[i]].ok}
         IN  <<"status">> \o SubSeq(fieldQueries, 1,
                                IF aborting = {} THEN Len(fieldQueries)
                                ELSE SetMin(aborting))

(* The state of one call of analyzeContext: repo is the repository it      *)
(* looks at, queries the queries it issued, ret the snapshot it returned   *)
(* (at most one).                                                          *)
NoSnapshot ==
    [pc |-> "idle", repo |-> [status |-> [ok |-> FALSE, out |-> <<>>]],
     queries |-> <<>>, ret |-> <<>>]

----------------------------------------------------------------------------
(* AIEngine                                                                *)

availableModels ==
    [k \in {"1", "2", "3", "4"} |->
        CASE k = "1" -> [name |-> "Gemini 2.0 Flash", provider |-> "gemini",
                         model |-> "gemini-2.0-flash"]
          [] k = "2" -> [name |-> "Llama 3.1 8B Instant", provider |-> "groq",
                         model |-> "llama-3.1-8b-instant"]
          [] k = "3" -> [name |-> "Llama 3.3 70B Versatile", provider |-> "groq",
                         model |-> "llama-3.3-70b-versatile"]
          [] k = "4" -> [name |-> "DeepSeek R1 Distill Llama 70B", provider |-> "groq",
                         model |-> "deepseek-r1-distill-llama-70b"]]

(* The names every object literal inherits from Object.prototype: obj[key] *)
(* finds a function (or the prototype) under them, not undefined.          *)
ObjectPrototypeKeys ==
    {"constructor", "toString", "toLocaleString", "valueOf", "hasOwnProperty",
     "isPrototypeOf", "propertyIsEnumerable", "__proto__"}

(* A member inherited from Object.prototype: it has no provider or model.  *)
InheritedMember ==
    [name |-> "undefined", provider |-> "undefined", model |-> "undefined"]

(* The parameter default: modelChoice = "1" when the argument is undefined.*)
NoChoice == "(undefined)"
defaultChoice(modelChoice) == IF modelChoice = NoChoice THEN "1" ELSE modelChoice

(* this.availableModels[modelChoice] || this.availableModels["1"]          *)
modelInfoOf(modelChoice) ==
    LET key == defaultChoice(modelChoice)
    IN  IF key \in DOMAIN availableModels THEN availableModels[key]
        ELSE IF key \in ObjectPrototypeKeys THEN InheritedMember
        ELSE availableModels["1"]

(* An Error: String(e) is its name, ": " and its message.                  *)
Error(name, message) == [name |-> name, message |-> message]
errorString(e) == <<e.name, ": ">> \o e.message

(* context.<field> || fallback, on a snapshot that may lack the field.     *)
fieldOr(context, field, fallback) ==
    IF field \in DOMAIN context THEN context[field] ELSE fallback

buildPrompt(userInput, context) ==
    [branch |-> OrElse(fieldOr(context, "branch", <<>>), <<"unknown">>),
     dirty |-> fieldOr(context, "is_dirty", FALSE),
     staged |-> fieldOr(context, "staged_files", 0),
     unstaged |-> fieldOr(context, "unstaged_files", 0),
     detached |-> fieldOr(context, "is_detached", FALSE),
     remote |-> fieldOr(context, "remote_status", [none |-> TRUE]),
     request |-> userInput]

(* The state of one call of generateCommand: pc is "post" while the call   *)
(* awaits axios.post; provider is the adapter entered, "none" before;      *)
(* requests lists the HTTP requests issued; ret holds the value resolved   *)
(* to (at most one), thrown the error rejected with (at most one).         *)
NoGenerate ==
    [pc |-> "idle", provider |-> "none", requests |-> <<>>, ret |-> <<>>,
     thrown |-> <<>>]

(* No call of generateCommand in progress.                                 *)
NoGenArgs ==
    [engine |-> [geminiApiKey |-> Undefined, groqApiKey |-> Undefined],
     userInput |-> "", context |-> [error |-> <<>>], modelChoice |-> NoChoice,
     reply |-> "none"]

(* generateCommand's catch without its return: the error goes on.          *)
generateCatch_Rethrow(g, error) ==
    [g EXCEPT !.pc = "thrown", !.thrown = <<error>>]

(* generateCommand's catch.                                                *)
generateCatch(g, error) ==
    [g EXCEPT !.pc = "returned",
        !.ret = << AIResponse(Null,
                     Str(<<"Failed to generate command: ">> \o errorString(error)),
                     Str(<<"Please try again", " or use manual Git commands">>)) >>]

(* The adapter without its test of the key.                                *)
adapterEnter_NoKeyTest(g, provider, engine, userInput, context, model) ==
    [g EXCEPT !.pc = "post", !.provider = provider,
        !.requests = Append(g.requests,
            [provider |-> provider, model |-> model,
             key |-> IF provider = "gemini" THEN engine.geminiApiKey
                     ELSE engine.groqApiKey,
             prompt |-> buildPrompt(userInput, context)])]

(* generateWithGemini and generateWithGroq, up to the await of axios.post. *)
adapterEnter(g, provider, engine, userInput, context, model) ==
    LET key == IF provider = "gemini" THEN engine.geminiApiKey ELSE engine.groqApiKey
    IN  IF Falsy(key)
        THEN generateCatch([g EXCEPT !.provider = provider],
                Error("Error", IF provider = "gemini"
                               THEN <<"Gemini API key not configured">>
                               ELSE <<"Groq API key not configured">>))
        ELSE [g EXCEPT !.pc = "post", !.provider = provider,
                !.requests = Append(g.requests,
                    [provider |-> provider, model |-> model, key |-> key,
                     prompt |-> buildPrompt(userInput, context)])]

(* generateCommand, from its entry to its first return or await.           *)
generateEnter(engine, userInput, context, modelChoice) ==
    LET modelInfo == modelInfoOf(modelChoice)
    IN  IF modelInfo.provider \in {"gemini", "groq"}
        THEN adapterEnter(NoGenerate, modelInfo.provider, engine, userInput, context,
                          modelInfo.model)
        ELSE generateCatch(NoGenerate,
                Error("Error", <<"Unknown provider: ", modelInfo.provider>>))

apiErrorPrefix(provider) ==
    IF provider = "gemini" THEN "Gemini API error: " ELSE "Groq API error: "

(* axios.post resolved with response: data is "null" when the body is no   *)
(* object, text the value found at candidates[0].content.parts[0].text or  *)
(* choices[0].message.content (Undefined when the path is missing).        *)
generateResolved(g, response) ==
    IF response.data = "null"
    THEN generateCatch(g,
            Error("Error", <<apiErrorPrefix(g.provider)>>
                \o errorString(Error("TypeError",
                        <<"Cannot read properties of null">>))))
    ELSE [g EXCEPT !.pc = "returned",
            !.ret = << parseAIResponse(IF Falsy(response.text) THEN Str(<<>>)
                                       ELSE response.text) >>]

(* axios.post rejected, with one retry that is rejected as well.           *)
generateRejected_Retry(g, error) ==
    generateCatch([g EXCEPT !.requests = Append(@, @[Len(@)])],
                  Error("Error", <<apiErrorPrefix(g.provider)>> \o errorString(error)))

(* axios.post rejected with error.                                         *)
generateRejected(g, error) ==
    generateCatch(g, Error("Error", <<apiErrorPrefix(g.provider)>> \o errorString(error)))

----------------------------------------------------------------------------
(* The orchestrators: GitPilotWebviewProvider._executeCommand (the panel)  *)
(* and executeGitPilotCommand (the command palette).                       *)
(*                                                                         *)
(* A request is a record: flow is "panel" or "palette"; pc is where it     *)
(* waits ("inputBox", "post", "dialog", "execAsync", "settingsPrompt"),    *)
(* "idle" before it starts and "done" when it has ended; hasWorkspace,     *)
(* repo, config, userInput and dryRun are what it is given; context,       *)
(* modelChoice, gen, aiResponse and exec are its locals; answer is what    *)
(* the confirmation dialog returned ("none" when it was not shown); out    *)
(* lists what it sent: the panel's messages, the palette's notifications.  *)
NoRequest ==
    [flow |-> "none", pc |-> "idle", hasWorkspace |-> FALSE,
     repo |-> [status |-> [ok |-> FALSE, out |-> <<>>]],
     config |-> [geminiApiKey |-> Undefined, groqApiKey |-> Undefined,
                 defaultModel |-> "", autoConfirm |-> FALSE],
     userInput |-> "", dryRun |-> FALSE,
     context |-> [error |-> <<>>], modelChoice |-> NoChoice,
     gen |-> NoGenerate, aiResponse |-> AIResponse(Undefined, Undefined, Undefined),
     exec |-> NoCall, answer |-> "none", out |-> <<>>]

(* String(v), as a template literal prints v.                              *)
toString(v) ==
    CASE v.t = "string" -> v.s
      [] v.t = "number" -> <<ToString(v.n)>>
      [] v.t = "boolean" -> IF v.n = 1 THEN <<"true">> ELSE <<"false">>
      [] v.t = "null" -> <<"null">>
      [] v.t = "undefined" -> <<"undefined">>
      [] OTHER -> <<"[object Object]">>

modelMap ==
    [k \in {"gemini", "groq-llama-3.1", "groq-llama-3.3", "deepseek"} |->
        CASE k = "gemini" -> "1"
          [] k = "groq-llama-3.1" -> "2"
          [] k = "groq-llama-3.3" -> "3"
          [] k = "deepseek" -> "4"]

(* getModelChoice and _getModelChoice: modelMap[defaultModel] || '1'.  A   *)
(* name inherited from Object.prototype gives a function (the prototype    *)
(* itself for __proto__), which, used as a key of availableModels, is its  *)
(* string form.                                                            *)
getModelChoice(defaultModel) ==
    IF defaultModel \in DOMAIN modelMap THEN modelMap[defaultModel]
    ELSE IF defaultModel = "__proto__" THEN "[object Object]"
    ELSE IF defaultModel \in ObjectPrototypeKeys
    THEN "function Object() { [native code] }"
    ELSE "1"

(* What the flow sends: a message to the webview, or a notification.       *)
send(r, message) == [r EXCEPT !.out = Append(r.out, message)]
finish(r) == [r EXCEPT !.pc = "done"]

errorOut(r, text) ==
    IF r.flow = "panel" THEN [type |-> "error", message |-> text]
    ELSE [type |-> "showErrorMessage", message |-> text]

(* A catch that swallows the error without a message.                      *)
flowCatch_Silent(r, error) == finish(r)

(* The catch around the whole flow.                                        *)
flowCatch(r, error) == finish(send(r, errorOut(r, <<"GitPilot error: ">> \o error)))

(* The flow once execute or previewCommand has settled without awaiting,   *)
(* or after its await.                                                     *)
afterExecute(r) ==
    IF r.exec.pc = "thrown" THEN flowCatch(r, <<"Error", ": ">> \o r.exec.thrown[1])
    ELSE LET result == r.exec.ret[1]
         IN  IF r.flow = "panel"
             THEN finish(send(r, [type |-> IF r.dryRun THEN "previewResult"
                                           ELSE "executionResult",
                                  result |-> result]))
             ELSE IF result.success
             THEN finish(send(r, [type |-> "showInformationMessage",
                    message |-> <<"U+2705", " Success: ">>
                        \o OrElse(result.output, <<"Command executed successfully">>)]))
             ELSE finish(send(r, [type |-> "showErrorMessage",
                    message |-> <<"U+274C", " Error: ">> \o result.error]))

(* The request slots of the panel and the palette together; none is in    *)
(* use at the start.                                                       *)
Slots == {"a", "b"}
NoRequests == [s \in Slots |-> NoRequest]

(* aiResponse kept in one place for all requests in the place of a local:  *)
(* the command read is the one generated last.                             *)
generatedCommand_Shared(r) ==
    LET others == {s \in Slots : /\ reqs[s].pc \in {"dialog", "execAsync"}
                                 /\ reqs[s].aiResponse.command.t = "string"
                                 /\ reqs[s].aiResponse # r.aiResponse}
    IN  IF others = {} THEN r.aiResponse.command.s
        ELSE reqs[CHOOSE s \in others : TRUE].aiResponse.command.s

(* aiResponse.command, read from the request's own local.                  *)
generatedCommand(r) == r.aiResponse.command.s

(* executor.execute(aiResponse.command), up to its await.                  *)
callExecute(r) ==
    LET e == executeEnter(generatedCommand(r), FALSE)
        r2 == [r EXCEPT !.exec = e]
    IN  IF e.pc = "execAsync" THEN [r2 EXCEPT !.pc = "execAsync"] ELSE afterExecute(r2)

(* result !== 'Cancel' in the place of result === 'Execute'.               *)
shouldExecute_NotCancel(answer) == answer # "Cancel"

(* shouldExecute = result === 'Execute'                                    *)
shouldExecute(answer) == answer = "Execute"

(* The flow after the confirmation dialog, or without one.                 *)
afterConfirm(r) ==
    IF r.answer = "none" \/ shouldExecute(r.answer)
    THEN callExecute(r)
    ELSE finish(send(r, IF r.flow = "panel"
                        THEN [type |-> "cancelled", message |-> <<"Operation cancelled.">>]
                        ELSE [type |-> "showInformationMessage",
                              message |-> <<"Operation cancelled.">>]))

(* The flow from the value generateCommand resolved to.                    *)
afterGenerate(r0) ==
    LET aiResponse == r0.gen.ret[1]
        r == [r0 EXCEPT !.aiResponse = aiResponse]
        failed == <<"Failed to generate command: ">> \o toString(aiResponse.explanation)
    IN  IF Falsy(aiResponse.command)
        THEN finish(send(r, errorOut(r, failed)))
        ELSE LET r1 == IF r.flow = "panel"
                       THEN send(r, [type |-> "commandGenerated",
                                     command |-> aiResponse.command,
                                     explanation |-> aiResponse.explanation,
                                     warning |-> aiResponse.warning])
                       ELSE r
             IN  IF aiResponse.command.t # "string"
                 THEN flowCatch(r1, <<"TypeError", ": ",
                                      "command.toLowerCase is not a function">>)
                 ELSE IF r.flow = "panel" /\ r.dryRun
                 THEN LET e == previewCommand(aiResponse.command.s)
                          r2 == [r1 EXCEPT !.exec = e]
                      IN  IF e.pc = "execAsync" THEN [r2 EXCEPT !.pc = "execAsync"]
                          ELSE afterExecute(r2)
                 ELSE IF isDestructiveCommand(aiResponse.command.s)
                         /\ ~r.config.autoConfirm
                 THEN [r1 EXCEPT !.pc = "dialog"]
                 ELSE afterConfirm(r1)

(* The flow from its test of the keys to the await of generateCommand.     *)
generateStep(r) ==
    IF Falsy(r.config.geminiApiKey) /\ Falsy(r.config.groqApiKey)
    THEN LET text == <<"No API key configured. Please set up your AI provider API key in settings.">>
         IN  IF r.flow = "panel"
             THEN finish(send(r, errorOut(r, text)))
             ELSE [send(r, errorOut(r, text)) EXCEPT !.pc = "settingsPrompt"]
    ELSE LET r1 == IF r.flow = "panel" THEN send(r, [type |-> "thinking"]) ELSE r
             context == analyzeContext(r.repo)
             modelChoice == getModelChoice(IF r.config.defaultModel = ""
                                           THEN "gemini" ELSE r.config.defaultModel)
             g == generateEnter([geminiApiKey |-> r.config.geminiApiKey,
                                 groqApiKey |-> r.config.groqApiKey],
                                r.userInput, context, modelChoice)
             r2 == [r1 EXCEPT !.context = context, !.modelChoice = modelChoice,
                              !.gen = g]
         IN  IF g.pc = "post" THEN [r2 EXCEPT !.pc = "post"] ELSE afterGenerate(r2)

(* The flow from its start to its first await.                             *)
startRequest(r) ==
    IF ~r.hasWorkspace
    THEN finish(send(r, errorOut(r, <<"Please open a workspace folder first.">>)))
    ELSE IF ~isGitRepo(r.repo)
    THEN finish(send(r, errorOut(r,
            <<"Not a Git repository. Please open a Git repository.">>)))
    ELSE IF r.flow = "palette" THEN [r EXCEPT !.pc = "inputBox"]
    ELSE generateStep(r)

----------------------------------------------------------------------------
(* The webview of the panel: its script and what it shows.  loaded: the    *)
(* script has run; loading: the state set by setLoading (the two buttons   *)
(* are disabled while it is TRUE); contextInfo: the snapshot shown, <<>>   *)
(* before the first one; current: whether that snapshot was taken after    *)
(* the last command that the panel reported as executed.                   *)
NoPanel == [loaded |-> FALSE, loading |-> FALSE, contextInfo |-> <<>>, current |-> TRUE]

setLoading(p, isLoading) == [p EXCEPT !.loading = isLoading]

(* The listener of the window's message event.                             *)
onMessage(p, message) ==
    CASE message.type = "executionResult" ->
            [setLoading(p, FALSE) EXCEPT
                !.current = IF message.result.executed THEN FALSE ELSE @]
      [] message.type \in {"previewResult", "error", "cancelled"} ->
            setLoading(p, FALSE)
      [] message.type = "contextUpdate" ->
            [p EXCEPT !.contextInfo = <<message.context>>, !.current = TRUE]
      [] OTHER -> p

RECURSIVE deliver(_, _)
deliver(p, messages) ==
    IF messages = <<>> THEN p ELSE deliver(onMessage(p, Head(messages)), Tail(messages))

(* What a step of a request sent: the messages of r2 that r had not.       *)
newMessages(r, r2) == SubSeq(r2.out, Len(r.out) + 1, Len(r2.out))

(* _sendContext, with what the webview makes of its message.               *)
sendContext(p, hasWorkspace, repo) ==
    IF ~hasWorkspace THEN p
    ELSE onMessage(p, [type |-> "contextUpdate", context |-> analyzeContext(repo)])

----------------------------------------------------------------------------
(* The inputs: commands put together from a lead, a first word and up to   *)
(* MaxArgs further pieces.                                                 *)
MaxArgs == 2

Leads == {<<>>, <<" ">>}
Heads == {<<>>, git, <<"g", "i", "t", "k">>, <<"s", "t", "a", "t", "u", "s">>}
Pieces ==
    { <<" ", "s", "t", "a", "t", "u", "s">>,
      <<" ">>,
      <<" ", "r", "e", "s", "e", "t", " ", "-", "-", "h", "a", "r", "d">>,
      <<" ", "c", "l", "e", "a", "n", " ", "-", "f", "d">>,
      <<" ", "p", "u", "s", "h", " ", "-", "-", "F", "o", "r", "c", "e">>,
      <<" ", "R", "E", "B", "A", "S", "E">>,
      <<" ", "c", "h", "e", "r", "r", "y", "-", "p", "i", "c", "k">>,
      <<" ", "m", "e", "r", "g", "e", " ", "-", "-", "n", "o", "-", "f", "f">>,
      <<";">>, <<"&">>, <<"|">>, <<BACKTICK>>, <<"$">>, <<">">>, <<"<">>, <<NL>> }

RECURSIVE ArgLists(_)
ArgLists(n) ==
    IF n = 0 THEN {<<>>}
    ELSE LET shorter == ArgLists(n - 1)
         IN  shorter \cup {a \o p : a \in shorter, p \in Pieces}

Commands == {l \o h \o a : l \in Leads, h \in Heads, a \in ArgLists(MaxArgs)}

Stdouts == {<<>>, <<"o", "k">>}
Stderrs == {<<>>, <<"w">>}

(* What promisify(exec) rejects with.                                      *)
ExecErrors ==
    { [stdout |-> <<>>, stderr |-> <<"fatal">>, message |-> <<"Command failed">>,
       code |-> [kind |-> "number", num |-> 128]],
      [stdout |-> <<"o", "k">>, stderr |-> <<>>, message |-> <<"Command failed">>,
       code |-> [kind |-> "number", num |-> 1]],
      [stdout |-> <<"o", "k">>, stderr |-> <<>>, message |-> <<"Command failed">>,
       code |-> [kind |-> "null", num |-> 0]],
      [stdout |-> <<>>, stderr |-> <<>>, message |-> <<"spawn /bin/sh ENOENT">>,
       code |-> [kind |-> "string", num |-> 0]] }

----------------------------------------------------------------------------
(* A caller of GitExecutor's public methods.                               *)
NoArgs == [op |-> "none", command |-> <<>>, dryRun |-> FALSE]

InitExec ==
    /\ call = NoArgs
    /\ exec = NoCall
    /\ destr = <<>>
    /\ gcall = NoGenArgs
    /\ gen = NoGenerate
    /\ req = NoRequest
    /\ parse = NoParse
    /\ snap = NoSnapshot
    /\ reqs = NoRequests
    /\ panel = NoPanel

CallExecute ==
    /\ exec.pc = "idle"
    /\ \E c \in Commands, d \in BOOLEAN :
        /\ call' = [op |-> "execute", command |-> c, dryRun |-> d]
        /\ exec' = executeEnter(c, d)
    /\ destr' = <<>>
    /\ UNCHANGED <<gcall, gen, req, parse, snap, reqs, panel>>

CallPreviewCommand ==
    /\ exec.pc = "idle"
    /\ \E c \in Commands :
        /\ call' = [op |-> "previewCommand", command |-> c, dryRun |-> TRUE]
        /\ exec' = previewCommand(c)
    /\ destr' = <<>>
    /\ UNCHANGED <<gcall, gen, req, parse, snap, reqs, panel>>

CallIsDestructiveCommand ==
    /\ exec.pc = "idle"
    /\ \E c \in Commands :
        /\ call' = [op |-> "isDestructiveCommand", command |-> c, dryRun |-> FALSE]
        /\ destr' = <<isDestructiveCommand(c)>>
    /\ exec' = [NoCall EXCEPT !.pc = "returned"]
    /\ UNCHANGED <<gcall, gen, req, parse, snap, reqs, panel>>

SubprocessExitsZero ==
    /\ exec.pc = "execAsync"
    /\ \E out \in Stdouts, err \in Stderrs : exec' = executeResolved(exec, out, err)
    /\ UNCHANGED <<call, destr, gcall, gen, req, parse, snap, reqs, panel>>

SubprocessFails ==
    /\ exec.pc = "execAsync"
    /\ \E error \in ExecErrors : exec' = executeRejected(exec, error)
    /\ UNCHANGED <<call, destr, gcall, gen, req, parse, snap, reqs, panel>>

CallerContinues ==
    /\ exec.pc \in {"returned", "thrown"}
    /\ call' = NoArgs
    /\ exec' = NoCall
    /\ destr' = <<>>
    /\ UNCHANGED <<gcall, gen, req, parse, snap, reqs, panel>>

NextExec ==
    \/ CallExecute
    \/ CallPreviewCommand
    \/ CallIsDestructiveCommand
    \/ SubprocessExitsZero
    \/ SubprocessFails
    \/ CallerContinues

SpecExec == InitExec /\ [][NextExec]_vars

----------------------------------------------------------------------------
(* The inputs of generateCommand: repositories, keys, model choices and    *)
(* what the provider answers.                                              *)

Answer(ok, out) == [ok |-> ok, out |-> out]

CleanRepo ==
    [status |-> Answer(TRUE, <<>>),
     revParse |-> Answer(TRUE, <<"m", "a", "i", "n", NL>>),
     porcelain |-> Answer(TRUE, <<>>),
     cached |-> Answer(TRUE, <<>>),
     diff |-> Answer(TRUE, <<>>),
     lsFiles |-> Answer(TRUE, <<>>),
     symbolicRef |-> Answer(TRUE, <<"r", "e", "f", "s", "/", "m", "a", "i", "n", NL>>),
     remote |-> Answer(FALSE, <<>>),
     log |-> Answer(TRUE, <<"a", "1", " ", "|", " ", "s", " ", "|", " ", "n", " ", "|",
                           " ", "2", "0", "2", "4">>),
     stash |-> Answer(TRUE, <<>>)]

DirtyRepo ==
    [CleanRepo EXCEPT
        !.porcelain = Answer(TRUE, <<"M", " ", "a", NL, "?", "?", " ", "b", NL>>),
        !.cached = Answer(TRUE, <<"a", NL>>),
        !.lsFiles = Answer(TRUE, <<"b", NL, "c", NL>>),
        !.remote = Answer(TRUE, <<"l", "o", "c", "a", "l", " ", "o", "u", "t", " ", "o",
                                  "f", " ", "d", "a", "t", "e", " ", "b", "y", " ", "2",
                                  " ", "c", "o", "m", "m", "i", "t", "s">>)]

(* A detached HEAD: `git symbolic-ref -q HEAD` exits with status 1.        *)
DetachedRepo ==
    [CleanRepo EXCEPT !.revParse = Answer(TRUE, <<"H", "E", "A", "D", NL>>),
                      !.symbolicRef = Answer(FALSE, <<>>)]

NotARepo == [CleanRepo EXCEPT !.status = Answer(FALSE, <<>>)]

Repos == {CleanRepo, DirtyRepo, DetachedRepo, NotARepo}

Contexts == {analyzeContext(r) : r \in Repos}

ApiKeys == {Undefined, Str(<<>>), Str(<<"k">>)}
Engines == [geminiApiKey : ApiKeys, groqApiKey : ApiKeys]

ModelChoices == {NoChoice, "1", "2", "3", "4", "5", "gemini", "constructor"}

UserInputs == {"undo the last commit", "force push"}

ReplyTexts ==
    { <<"{", DQUOTE, "c", "o", "m", "m", "a", "n", "d", DQUOTE, ":", DQUOTE, "g", "i", "t", " ", "s", "t", "a", "t", "u", "s", DQUOTE, ",", DQUOTE, "e", "x", "p", "l", "a", "n", "a", "t", "i", "o", "n", DQUOTE, ":", DQUOTE, "e", DQUOTE, ",", DQUOTE, "w", "a", "r", "n", "i", "n", "g", DQUOTE, ":", "n", "u", "l", "l", "}">>,
      <<"S", "u", "r", "e", ":", " ", "{", DQUOTE, "c", "o", "m", "m", "a", "n", "d", DQUOTE, ":", " ", DQUOTE, "g", "i", "t", " ", "p", "u", "s", "h", " ", "-", "-", "f", "o", "r", "c", "e", DQUOTE, ",", " ", DQUOTE, "w", "a", "r", "n", "i", "n", "g", DQUOTE, ":", " ", DQUOTE, "w", DQUOTE, "}", " ", "o", "k">>,
      <<"{", DQUOTE, "c", "o", "m", "m", "a", "n", "d", DQUOTE, ":", DQUOTE, "g", "i", "t", " ", "a", "d", "d", " ", ".", " ", "&", "&", " ", "g", "i", "t", " ", "c", "o", "m", "m", "i", "t", " ", "-", "m", " ", "x", DQUOTE, ",", DQUOTE, "e", "x", "p", "l", "a", "n", "a", "t", "i", "o", "n", DQUOTE, ":", DQUOTE, "e", DQUOTE, "}">>,
      <<"{", DQUOTE, "c", "o", "m", "m", "a", "n", "d", DQUOTE, ":", " ", DQUOTE, " ", "g", "i", "t", " ", "r", "e", "b", "a", "s", "e", " ", "m", "a", "i", "n", " ", DQUOTE, "}">>,
      <<"{", DQUOTE, "c", "o", "m", "m", "a", "n", "d", DQUOTE, ":", " ", "5", "}">>,
      <<"{", DQUOTE, "c", "o", "m", "m", "a", "n", "d", DQUOTE, ":", "n", "u", "l", "l", ",", DQUOTE, "e", "x", "p", "l", "a", "n", "a", "t", "i", "o", "n", DQUOTE, ":", DQUOTE, "n", "o", "n", "e", DQUOTE, "}">>,
      <<"{", DQUOTE, "e", "x", "p", "l", "a", "n", "a", "t", "i", "o", "n", DQUOTE, ":", DQUOTE, "n", "o", " ", "k", "e", "y", DQUOTE, "}">>,
      <<"R", "u", "n", " ", BACKTICK, "g", "i", "t", " ", "l", "o", "g", " ", "-", "-", "o", "n", "e", "l", "i", "n", "e", BACKTICK, ".", NL, "W", "a", "r", "n", "i", "n", "g", ":", " ", "c", "h", "e", "c", "k", " ", "b", "r", "a", "n", "c", "h", " ", "f", "i", "r", "s", "t", ".">>,
      <<"g", "i", "t", " ", "r", "e", "s", "e", "t", " ", "-", "-", "h", "a", "r", "d", " ", "H", "E", "A", "D", "~", "1", NL, "N", "o", "t", "e", ":", " ", "a", NL, "W", "a", "r", "n", "i", "n", "g", ":", " ", "b">>,
      <<"I", " ", "c", "a", "n", "n", "o", "t", " ", "h", "e", "l", "p", " ", "w", "i", "t", "h", " ", "t", "h", "a", "t">>,
      <<"s", "t", "a", "t", "u", "s">> }

Responses ==
    {[data |-> "null", text |-> Undefined]}
        \cup {[data |-> "object", text |-> v] :
                v \in {Undefined, Str(<<>>), Num(7)} \cup {Str(t) : t \in ReplyTexts}}

AxiosErrors ==
    { Error("AxiosError", <<"Network Error">>),
      Error("AxiosError", <<"Request failed with status code 429">>) }

----------------------------------------------------------------------------
(* A caller of AIEngine.generateCommand.                                   *)
InitGen ==
    /\ call = NoArgs
    /\ exec = NoCall
    /\ destr = <<>>
    /\ gcall = NoGenArgs
    /\ gen = NoGenerate
    /\ req = NoRequest
    /\ parse = NoParse
    /\ snap = NoSnapshot
    /\ reqs = NoRequests
    /\ panel = NoPanel

CallGenerateCommand ==
    /\ gen.pc = "idle"
    /\ \E e \in Engines, u \in UserInputs, c \in Contexts, m \in ModelChoices :
        /\ gcall' = [engine |-> e, userInput |-> u, context |-> c, modelChoice |-> m,
                     reply |-> "none"]
        /\ gen' = generateEnter(e, u, c, m)
    /\ UNCHANGED <<call, exec, destr, req, parse, snap, reqs, panel>>

PostResolves ==
    /\ gen.pc = "post"
    /\ \E response \in Responses :
        /\ gen' = generateResolved(gen, response)
        /\ gcall' = [gcall EXCEPT !.reply = IF response.data = "null" THEN "null"
                                            ELSE IF Falsy(response.text) THEN "notext"
                                            ELSE "resolved"]
    /\ UNCHANGED <<call, exec, destr, req, parse, snap, reqs, panel>>

PostRejects ==
    /\ gen.pc = "post"
    /\ \E error \in AxiosErrors : gen' = generateRejected(gen, error)
    /\ gcall' = [gcall EXCEPT !.reply = "rejected"]
    /\ UNCHANGED <<call, exec, destr, req, parse, snap, reqs, panel>>

GenerateCallerContinues ==
    /\ gen.pc \in {"returned", "thrown"}
    /\ gcall' = NoGenArgs
    /\ gen' = NoGenerate
    /\ UNCHANGED <<call, exec, destr, req, parse, snap, reqs, panel>>

NextGen ==
    \/ CallGenerateCommand
    \/ PostResolves
    \/ PostRejects
    \/ GenerateCallerContinues

SpecGen == InitGen /\ [][NextGen]_vars

----------------------------------------------------------------------------
(* The two orchestrators, one request at a time.                           *)

Configs ==
    [geminiApiKey : {Undefined, Str(<<"k">>)}, groqApiKey : {Undefined, Str(<<"k">>)},
     defaultModel : {"", "groq-llama-3.3", "constructor"}, autoConfirm : BOOLEAN]

DialogAnswers == {"Execute", "Cancel", "dismissed"}

InitFlow ==
    /\ call = NoArgs
    /\ exec = NoCall
    /\ destr = <<>>
    /\ gcall = NoGenArgs
    /\ gen = NoGenerate
    /\ req = NoRequest
    /\ parse = NoParse
    /\ snap = NoSnapshot
    /\ reqs = NoRequests
    /\ panel = NoPanel

(* The webview posts executeCommand: _executeCommand(data.command,         *)
(* data.dryRun) runs to its first await.                                   *)
PanelRequest ==
    /\ req.pc = "idle"
    /\ \E w \in BOOLEAN, rp \in Repos, cf \in Configs, u \in UserInputs, d \in BOOLEAN :
        req' = startRequest([NoRequest EXCEPT !.flow = "panel", !.hasWorkspace = w,
                                !.repo = rp, !.config = cf, !.userInput = u,
                                !.dryRun = d])
    /\ UNCHANGED <<call, exec, destr, gcall, gen, parse, snap, reqs, panel>>

(* The command gitpilot.executeCommand: executeGitPilotCommand runs to the *)
(* input box.                                                              *)
PaletteRequest ==
    /\ req.pc = "idle"
    /\ \E w \in BOOLEAN, rp \in Repos, cf \in Configs :
        req' = startRequest([NoRequest EXCEPT !.flow = "palette", !.hasWorkspace = w,
                                !.repo = rp, !.config = cf])
    /\ UNCHANGED <<call, exec, destr, gcall, gen, parse, snap, reqs, panel>>

(* showInputBox resolves: with a text, or with undefined or "".            *)
InputBoxAnswered ==
    /\ req.pc = "inputBox"
    /\ \E u \in UserInputs \cup {""} :
        req' = IF u = "" THEN finish(req)
               ELSE generateStep([req EXCEPT !.userInput = u])
    /\ UNCHANGED <<call, exec, destr, gcall, gen, parse, snap, reqs, panel>>

(* The 'No API key configured' notification of the palette resolves.       *)
SettingsPromptAnswered ==
    /\ req.pc = "settingsPrompt"
    /\ \E openSettings \in BOOLEAN :
        req' = IF openSettings
               THEN finish(send(req, [type |-> "workbench.action.openSettings"]))
               ELSE finish(req)
    /\ UNCHANGED <<call, exec, destr, gcall, gen, parse, snap, reqs, panel>>

RequestPostResolves ==
    /\ req.pc = "post"
    /\ \E response \in Responses :
        req' = afterGenerate([req EXCEPT !.gen = generateResolved(req.gen, response)])
    /\ UNCHANGED <<call, exec, destr, gcall, gen, parse, snap, reqs, panel>>

RequestPostRejects ==
    /\ req.pc = "post"
    /\ \E error \in AxiosErrors :
        req' = afterGenerate([req EXCEPT !.gen = generateRejected(req.gen, error)])
    /\ UNCHANGED <<call, exec, destr, gcall, gen, parse, snap, reqs, panel>>

(* showWarningMessage resolves with the button chosen, or undefined.       *)
DialogAnswered ==
    /\ req.pc = "dialog"
    /\ \E answer \in DialogAnswers : req' = afterConfirm([req EXCEPT !.answer = answer])
    /\ UNCHANGED <<call, exec, destr, gcall, gen, parse, snap, reqs, panel>>

RequestSubprocessExitsZero ==
    /\ req.pc = "execAsync"
    /\ \E out \in Stdouts, err \in Stderrs :
        req' = afterExecute([req EXCEPT !.exec = executeResolved(req.exec, out, err)])
    /\ UNCHANGED <<call, exec, destr, gcall, gen, parse, snap, reqs, panel>>

RequestSubprocessFails ==
    /\ req.pc = "execAsync"
    /\ \E error \in ExecErrors :
        req' = afterExecute([req EXCEPT !.exec = executeRejected(req.exec, error)])
    /\ UNCHANGED <<call, exec, destr, gcall, gen, parse, snap, reqs, panel>>

RequestEnds ==
    /\ req.pc = "done"
    /\ req' = NoRequest
    /\ UNCHANGED <<call, exec, destr, gcall, gen, parse, snap, reqs, panel>>

NextFlow ==
    \/ PanelRequest
    \/ PaletteRequest
    \/ InputBoxAnswered
    \/ SettingsPromptAnswered
    \/ RequestPostResolves
    \/ RequestPostRejects
    \/ DialogAnswered
    \/ RequestSubprocessExitsZero
    \/ RequestSubprocessFails
    \/ RequestEnds

SpecFlow == InitFlow /\ [][NextFlow]_vars

(* The same, with every external call settling: the HTTP call resolves or  *)
(* is rejected, the input box, the settings prompt and the dialog are      *)
(* answered or dismissed, the subprocess exits or fails (the latest when   *)
(* its 30 s timeout kills it).                                             *)
SpecFlowFair ==
    /\ SpecFlow
    /\ WF_vars(InputBoxAnswered)
    /\ WF_vars(SettingsPromptAnswered)
    /\ WF_vars(RequestPostResolves \/ RequestPostRejects)
    /\ WF_vars(DialogAnswered)
    /\ WF_vars(RequestSubprocessExitsZero \/ RequestSubprocessFails)

----------------------------------------------------------------------------
(* The panel and the palette together: up to two requests in progress,     *)
(* started by the webview's Execute button, Preview button and Ctrl+Enter  *)
(* and by the command gitpilot.executeCommand.  A message posted by the    *)
(* webview is handled, and a message sent to it is received, in the step   *)
(* that posts it.                                                          *)

PanelConfigs ==
    [geminiApiKey : {Str(<<"k">>)}, groqApiKey : {Undefined}, defaultModel : {""},
     autoConfirm : BOOLEAN]

PanelRepos == {CleanRepo, DirtyRepo}

PanelResponses ==
    {[data |-> "object", text |-> Str(t)] : t \in
        { <<"{", DQUOTE, "c", "o", "m", "m", "a", "n", "d", DQUOTE, ":",
            DQUOTE, "g", "i", "t", " ", "s", "t", "a", "t", "u", "s", DQUOTE,
            ",", DQUOTE, "e", "x", "p", "l", "a", "n", "a", "t", "i", "o",
            "n", DQUOTE, ":", DQUOTE, "e", DQUOTE, ",", DQUOTE, "w", "a",
            "r", "n", "i", "n", "g", DQUOTE, ":", "n", "u", "l", "l", "}">>,
          <<"S", "u", "r", "e", ":", " ", "{", DQUOTE, "c", "o", "m", "m",
            "a", "n", "d", DQUOTE, ":", " ", DQUOTE, "g", "i", "t", " ", "p",
            "u", "s", "h", " ", "-", "-", "f", "o", "r", "c", "e", DQUOTE,
            ",", " ", DQUOTE, "w", "a", "r", "n", "i", "n", "g", DQUOTE, ":",
            " ", DQUOTE, "w", DQUOTE, "}", " ", "o", "k">>,
          <<"I", " ", "c", "a", "n", "n", "o", "t", " ", "h", "e", "l", "p",
            " ", "w", "i", "t", "h", " ", "t", "h", "a", "t">> }}

PanelAxiosErrors == {Error("AxiosError", <<"Network Error">>)}

PanelStdouts == {<<"o", "k">>}

PanelExecErrors ==
    { [stdout |-> <<>>, stderr |-> <<"fatal">>, message |-> <<"Command failed">>,
       code |-> [kind |-> "number", num |-> 128]] }

InitPanel ==
    /\ call = NoArgs
    /\ exec = NoCall
    /\ destr = <<>>
    /\ gcall = NoGenArgs
    /\ gen = NoGenerate
    /\ req = NoRequest
    /\ parse = NoParse
    /\ snap = NoSnapshot
    /\ reqs = NoRequests
    /\ panel = NoPanel

(* The slot a new request takes.                                           *)
FreeSlot == IF reqs["a"].pc = "idle" THEN "a" ELSE "b"

(* A step of the request in slot s that leaves it as r2.                   *)
Advance(s, r2) ==
    /\ reqs' = [reqs EXCEPT ![s] = r2]
    /\ panel' = IF r2.flow = "panel" THEN deliver(panel, newMessages(reqs[s], r2))
                ELSE panel

(* executeCommand(command, dryRun) of the script: setLoading(true), then   *)
(* the message that starts _executeCommand.                                *)
PostExecuteCommand(dryRun) ==
    \E rp \in PanelRepos, cf \in PanelConfigs, u \in {"undo the last commit"} :
        LET r == startRequest([NoRequest EXCEPT !.flow = "panel", !.hasWorkspace = TRUE,
                                  !.repo = rp, !.config = cf, !.userInput = u,
                                  !.dryRun = dryRun])
        IN  /\ reqs' = [reqs EXCEPT ![FreeSlot] = r]
            /\ panel' = deliver(setLoading(panel, TRUE), r.out)

(* resolveWebviewView: the script runs and, at its end, posts getContext.  *)
ResolveWebviewView ==
    /\ ~panel.loaded
    /\ \E rp \in PanelRepos :
        panel' = sendContext([panel EXCEPT !.loaded = TRUE], TRUE, rp)
    /\ UNCHANGED <<call, exec, destr, gcall, gen, req, parse, snap, reqs>>

(* A click on the Execute button, enabled while loading is FALSE.          *)
ClickExecute ==
    /\ panel.loaded /\ ~panel.loading
    /\ reqs[FreeSlot].pc = "idle"
    /\ PostExecuteCommand(FALSE)
    /\ UNCHANGED <<call, exec, destr, gcall, gen, req, parse, snap>>

(* A click on the Preview button, enabled while loading is FALSE.          *)
ClickPreview ==
    /\ panel.loaded /\ ~panel.loading
    /\ reqs[FreeSlot].pc = "idle"
    /\ PostExecuteCommand(TRUE)
    /\ UNCHANGED <<call, exec, destr, gcall, gen, req, parse, snap>>

(* Ctrl+Enter in the text area: the keydown listener.                      *)
CtrlEnter ==
    /\ panel.loaded
    /\ reqs[FreeSlot].pc = "idle"
    /\ PostExecuteCommand(FALSE)
    /\ UNCHANGED <<call, exec, destr, gcall, gen, req, parse, snap>>

(* The command gitpilot.executeCommand, up to its input box.               *)
PaletteCommand ==
    /\ reqs[FreeSlot].pc = "idle"
    /\ \E cf \in {c \in PanelConfigs : ~c.autoConfirm} :
        Advance(FreeSlot, startRequest([NoRequest EXCEPT !.flow = "palette",
                                           !.hasWorkspace = TRUE, !.repo = DirtyRepo,
                                           !.config = cf]))
    /\ UNCHANGED <<call, exec, destr, gcall, gen, req, parse, snap>>

SlotInputBoxAnswered ==
    /\ \E s \in Slots :
        /\ reqs[s].pc = "inputBox"
        /\ \E u \in {"force push", ""} :
            Advance(s, IF u = "" THEN finish(reqs[s])
                       ELSE generateStep([reqs[s] EXCEPT !.userInput = u]))
    /\ UNCHANGED <<call, exec, destr, gcall, gen, req, parse, snap>>

SlotPostResolves ==
    /\ \E s \in Slots :
        /\ reqs[s].pc = "post"
        /\ \E response \in PanelResponses :
            Advance(s, afterGenerate([reqs[s] EXCEPT
                                        !.gen = generateResolved(reqs[s].gen, response)]))
    /\ UNCHANGED <<call, exec, destr, gcall, gen, req, parse, snap>>

SlotPostRejects ==
    /\ \E s \in Slots :
        /\ reqs[s].pc = "post"
        /\ \E error \in PanelAxiosErrors :
            Advance(s, afterGenerate([reqs[s] EXCEPT
                                        !.gen = generateRejected(reqs[s].gen, error)]))
    /\ UNCHANGED <<call, exec, destr, gcall, gen, req, parse, snap>>

SlotDialogAnswered ==
    /\ \E s \in Slots :
        /\ reqs[s].pc = "dialog"
        /\ \E answer \in DialogAnswers :
            Advance(s, afterConfirm([reqs[s] EXCEPT !.answer = answer]))
    /\ UNCHANGED <<call, exec, destr, gcall, gen, req, parse, snap>>

SlotSubprocessExitsZero ==
    /\ \E s \in Slots :
        /\ reqs[s].pc = "execAsync"
        /\ \E out \in PanelStdouts :
            Advance(s, afterExecute([reqs[s] EXCEPT
                                       !.exec = executeResolved(reqs[s].exec, out, <<>>)]))
    /\ UNCHANGED <<call, exec, destr, gcall, gen, req, parse, snap>>

SlotSubprocessFails ==
    /\ \E s \in Slots :
        /\ reqs[s].pc = "execAsync"
        /\ \E error \in PanelExecErrors :
            Advance(s, afterExecute([reqs[s] EXCEPT
                                       !.exec = executeRejected(reqs[s].exec, error)]))
    /\ UNCHANGED <<call, exec, destr, gcall, gen, req, parse, snap>>

(* The promise of a request settles; its slot is free again.               *)
SlotRequestEnds ==
    /\ \E s \in Slots :
        /\ reqs[s].pc = "done"
        /\ reqs' = [reqs EXCEPT ![s] = NoRequest]
    /\ UNCHANGED <<call, exec, destr, gcall, gen, req, parse, snap, panel>>

NextPanel ==
    \/ ResolveWebviewView
    \/ ClickExecute
    \/ ClickPreview
    \/ CtrlEnter
    \/ PaletteCommand
    \/ SlotInputBoxAnswered
    \/ SlotPostResolves
    \/ SlotPostRejects
    \/ SlotDialogAnswered
    \/ SlotSubprocessExitsZero
    \/ SlotSubprocessFails
    \/ SlotRequestEnds

SpecPanel == InitPanel /\ [][NextPanel]_vars

----------------------------------------------------------------------------
(* The inputs of parseAIResponse: replies put together from a prefix, a    *)
(* JSON object and a suffix, and replies that hold no JSON object.  Each   *)
(* object comes with the values of its three fields.                       *)
JsonBodies ==
    << [text |->
         <<"{", DQUOTE, "c", "o", "m", "m", "a", "n", "d", DQUOTE, ":",
           DQUOTE, "g", "i", "t", " ", "s", "t", "a", "t", "u", "s", DQUOTE,
           ",", DQUOTE, "e", "x", "p", "l", "a", "n", "a", "t", "i", "o",
           "n", DQUOTE, ":", DQUOTE, "e", DQUOTE, ",", DQUOTE, "w", "a", "r",
           "n", "i", "n", "g", DQUOTE, ":", "n", "u", "l", "l", "}">>,
        command |-> Str(<<"g", "i", "t", " ", "s", "t", "a", "t", "u", "s">>),
        explanation |-> Str(<<"e">>),
        warning |-> Null],
       [text |->
         <<"{", DQUOTE, "c", "o", "m", "m", "a", "n", "d", DQUOTE, ":", " ",
           DQUOTE, "g", "i", "t", " ", "p", "u", "s", "h", " ", "-", "-",
           "f", "o", "r", "c", "e", DQUOTE, ",", " ", DQUOTE, "w", "a", "r",
           "n", "i", "n", "g", DQUOTE, ":", " ", DQUOTE, "w", DQUOTE, "}">>,
        command |-> Str(<<"g", "i", "t", " ", "p", "u", "s", "h", " ", "-", "-", "f", "o", "r", "c", "e">>),
        explanation |-> Undefined,
        warning |-> Str(<<"w">>)],
       [text |->
         <<"{", DQUOTE, "c", "o", "m", "m", "a", "n", "d", DQUOTE, ":",
           DQUOTE, " ", "g", "i", "t", " ", "r", "e", "b", "a", "s", "e",
           " ", "m", "a", "i", "n", " ", DQUOTE, "}">>,
        command |-> Str(<<" ", "g", "i", "t", " ", "r", "e", "b", "a", "s", "e", " ", "m", "a", "i", "n", " ">>),
        explanation |-> Undefined,
        warning |-> Undefined],
       [text |->
         <<"{", DQUOTE, "c", "o", "m", "m", "a", "n", "d", DQUOTE, ":", " ",
           "5", ",", " ", DQUOTE, "e", "x", "p", "l", "a", "n", "a", "t",
           "i", "o", "n", DQUOTE, ":", " ", DQUOTE, "f", "i", "v", "e",
           DQUOTE, "}">>,
        command |-> Num(5),
        explanation |-> Str(<<"f", "i", "v", "e">>),
        warning |-> Undefined],
       [text |->
         <<"{", DQUOTE, "c", "o", "m", "m", "a", "n", "d", DQUOTE, ":", "n",
           "u", "l", "l", ",", DQUOTE, "e", "x", "p", "l", "a", "n", "a",
           "t", "i", "o", "n", DQUOTE, ":", DQUOTE, "n", "o", "n", "e",
           DQUOTE, "}">>,
        command |-> Null,
        explanation |-> Str(<<"n", "o", "n", "e">>),
        warning |-> Undefined],
       [text |->
         <<"{", DQUOTE, "c", "o", "m", "m", "a", "n", "d", DQUOTE, ":",
           DQUOTE, "g", "i", "t", " ", "s", "t", "a", "s", "h", DQUOTE, ",",
           DQUOTE, "e", "x", "p", "l", "a", "n", "a", "t", "i", "o", "n",
           DQUOTE, ":", DQUOTE, "a", "}", "b", DQUOTE, "}">>,
        command |-> Str(<<"g", "i", "t", " ", "s", "t", "a", "s", "h">>),
        explanation |-> Str(<<"a", "}", "b">>),
        warning |-> Undefined],
       [text |->
         <<"{", DQUOTE, "c", "o", "m", "m", "a", "n", "d", DQUOTE, ":",
           DQUOTE, "g", "i", "t", " ", "l", "o", "g", DQUOTE, ",", DQUOTE,
           "e", "x", "p", "l", "a", "n", "a", "t", "i", "o", "n", DQUOTE,
           ":", DQUOTE, "s", "a", "y", " ", BACKSLASH, DQUOTE, "h", "i",
           BACKSLASH, DQUOTE, DQUOTE, "}">>,
        command |-> Str(<<"g", "i", "t", " ", "l", "o", "g">>),
        explanation |-> Str(<<"s", "a", "y", " ", DQUOTE, "h", "i", DQUOTE>>),
        warning |-> Undefined] >>

Prefixes ==
    { <<>>,
      <<"S", "u", "r", "e", ":", " ">>,
      <<BACKTICK, BACKTICK, BACKTICK, "j", "s", "o", "n", NL>>,
      <<"T", "r", "y", " ", "t", "h", "i", "s", NL>> }

Suffixes ==
    { <<>>,
      <<" ", "o", "k">>,
      <<NL, BACKTICK, BACKTICK, BACKTICK>>,
      <<NL, "g", "i", "t", " ", "p", "u", "s", "h", " ", "o", "r", "i", "g",
        "i", "n", " ", "m", "a", "i", "n">>,
      <<NL, "W", "a", "r", "n", "i", "n", "g", ":", " ", "b", "e", " ", "c",
        "a", "r", "e", "f", "u", "l">> }

PlainTexts ==
    { <<"Y", "o", "u", " ", "s", "h", "o", "u", "l", "d", " ", "r", "u", "n",
        " ", BACKTICK, "g", "i", "t", " ", "l", "o", "g", " ", "-", "-", "o",
        "n", "e", "l", "i", "n", "e", BACKTICK, ".", NL, "W", "a", "r", "n",
        "i", "n", "g", ":", " ", "c", "h", "e", "c", "k", " ", "b", "r", "a",
        "n", "c", "h", " ", "f", "i", "r", "s", "t", ".">>,
      <<"F", "i", "r", "s", "t", NL, "R", "u", "n", " ", BACKTICK, "g", "i",
        "t", " ", "f", "e", "t", "c", "h", BACKTICK, " ", "n", "o", "w", NL,
        "g", "i", "t", " ", "p", "u", "l", "l", NL, "t", "h", "e", "n", " ",
        "r", "e", "s", "t">>,
      <<"w", "a", "r", "n", "i", "n", "g", " ", "o", "n", "e", NL, "T", "h",
        "e", " ", "W", "A", "R", "N", "I", "N", "G", " ", "t", "w", "o">>,
      <<"I", " ", "c", "a", "n", "n", "o", "t", " ", "h", "e", "l", "p", " ",
        "w", "i", "t", "h", " ", "t", "h", "a", "t">>,
      <<"s", "t", "a", "t", "u", "s">>,
      <<" ", " ", "m", "a", "y", "b", "e", NL, "n", "o", "t", " ", "s", "u",
        "r", "e", " ", " ">>,
      <<"{", DQUOTE, "c", "o", "m", "m", "a", "n", "d", DQUOTE, ":", " ",
        "g", "i", "t", " ", "s", "t", "a", "t", "u", "s", "}">>,
      <<"{", "n", "o", "t", " ", "j", "s", "o", "n">>,
      <<"R", "u", "n", " ", BACKTICK, "g", "i", "t", " ", "l", "o", "g", " ",
        "-", "-", "o", "n", "e", "l", "i", "n", "e", BACKTICK, ".", NL, "W",
        "a", "r", "n", "i", "n", "g", ":", " ", "c", "h", "e", "c", "k", " ",
        "b", "r", "a", "n", "c", "h", " ", "f", "i", "r", "s", "t", ".">>,
      <<"g", "i", "t", " ", "r", "e", "s", "e", "t", " ", "-", "-", "h", "a",
        "r", "d", " ", "H", "E", "A", "D", "~", "1", NL, "N", "o", "t", "e",
        ":", " ", "a", NL, "W", "a", "r", "n", "i", "n", "g", ":", " ", "b">>,
      <<"U", "s", "e", " ", BACKTICK, "g", "i", "t", " ", BACKTICK, "s", "t",
        "a", "t", "u", "s">>,
      <<BACKTICK, BACKTICK, BACKTICK, NL, "g", "i", "t", " ", "s", "t", "a",
        "t", "u", "s", NL, BACKTICK, BACKTICK, BACKTICK>>,
      <<>> }

ParseTexts ==
    PlainTexts \cup {p \o JsonBodies[i].text \o x :
                        p \in Prefixes, i \in 1..Len(JsonBodies), x \in Suffixes}

(* The argument is `<text of the reply> || ""`: a string, or whatever else *)
(* truthy the provider put in the place of the text.                       *)
ParseResponses == {Str(t) : t \in ParseTexts} \cup {Num(7), Object}

(* A caller of parseAIResponse.                                            *)
InitParse ==
    /\ call = NoArgs
    /\ exec = NoCall
    /\ destr = <<>>
    /\ gcall = NoGenArgs
    /\ gen = NoGenerate
    /\ req = NoRequest
    /\ parse = NoParse
    /\ snap = NoSnapshot
    /\ reqs = NoRequests
    /\ panel = NoPanel

CallParseAIResponse ==
    /\ parse.pc = "idle"
    /\ \E response \in ParseResponses :
        parse' = [pc |-> "returned", response |-> response,
                  ret |-> <<parseAIResponse(response)>>]
    /\ UNCHANGED <<call, exec, destr, gcall, gen, req, snap, reqs, panel>>

ParseCallerContinues ==
    /\ parse.pc = "returned"
    /\ parse' = NoParse
    /\ UNCHANGED <<call, exec, destr, gcall, gen, req, snap, reqs, panel>>

NextParse ==
    \/ CallParseAIResponse
    \/ ParseCallerContinues

SpecParse == InitParse /\ [][NextParse]_vars

----------------------------------------------------------------------------
(* The inputs of analyzeContext: repositories whose four listings hold 0   *)
(* to MaxFiles lines and in which at most one query fails.  Where the      *)
(* probe fails the path is no repository and every query fails.            *)
MaxFiles == 3

(* What git prints for n entries: n lines, each ended by a newline.        *)
RECURSIVE Listing(_)
Listing(n) == IF n = 0 THEN <<>> ELSE Listing(n - 1) \o <<"f", ToString(n), NL>>

QueryNames ==
    {"status", "revParse", "porcelain", "cached", "diff", "lsFiles", "symbolicRef",
     "remote", "log", "stash"}

RepoWith(staged, unstaged, untracked, stashed, failing) ==
    LET base == [DirtyRepo EXCEPT !.cached = Answer(TRUE, Listing(staged)),
                                  !.diff = Answer(TRUE, Listing(unstaged)),
                                  !.lsFiles = Answer(TRUE, Listing(untracked)),
                                  !.stash = Answer(TRUE, Listing(stashed))]
    IN  [q \in QueryNames |->
            IF failing = q \/ failing = "status" THEN Answer(FALSE, <<>>) ELSE base[q]]

SnapshotRepos ==
    {RepoWith(a, b, c, d, f) :
        a \in 0..MaxFiles, b \in 0..MaxFiles, c \in 0..MaxFiles, d \in 0..MaxFiles,
        f \in QueryNames \cup {"none"}}

(* A caller of analyzeContext.                                             *)
InitSnapshot ==
    /\ call = NoArgs
    /\ exec = NoCall
    /\ destr = <<>>
    /\ gcall = NoGenArgs
    /\ gen = NoGenerate
    /\ req = NoRequest
    /\ parse = NoParse
    /\ snap = NoSnapshot
    /\ reqs = NoRequests
    /\ panel = NoPanel

CallAnalyzeContext ==
    /\ snap.pc = "idle"
    /\ \E repo \in SnapshotRepos :
        snap' = [pc |-> "returned", repo |-> repo, queries |-> analyzeQueries(repo),
                 ret |-> <<analyzeContext(repo)>>]
    /\ UNCHANGED <<call, exec, destr, gcall, gen, req, parse, reqs, panel>>

SnapshotCallerContinues ==
    /\ snap.pc = "returned"
    /\ snap' = NoSnapshot
    /\ UNCHANGED <<call, exec, destr, gcall, gen, req, parse, reqs, panel>>

NextSnapshot ==
    \/ CallAnalyzeContext
    \/ SnapshotCallerContinues

SpecSnapshot == InitSnapshot /\ [][NextSnapshot]_vars

----------------------------------------------------------------------------
(* The vocabulary of the statements about execute.                         *)

IsExecuteCall == call.op \in {"execute", "previewCommand"} /\ exec.pc # "idle"

RECURSIVE DropLeading(_)
DropLeading(s) ==
    IF s # <<>> /\ Head(s) \in {" ", TAB, NL} THEN DropLeading(Tail(s)) ELSE s

RECURSIVE DropTrailing(_)
DropTrailing(s) ==
    IF s # <<>> /\ s[Len(s)] \in {" ", TAB, NL}
    THEN DropTrailing(SubSeq(s, 1, Len(s) - 1))
    ELSE s

Normalized(c) == DropTrailing(DropLeading(c))

BeginsWithGit(c) ==
    LET n == Normalized(c)
    IN  Len(n) >= 3 /\ n[1] = "g" /\ n[2] = "i" /\ n[3] = "t"

Occurs(tok, c) == \E i \in 1..Len(c) : \A k \in 1..Len(tok) :
                      i + k - 1 <= Len(c) /\ c[i + k - 1] = tok[k]

ForbiddenTokens ==
    { <<";">>, <<"&", "&">>, <<"|", "|">>, <<"|">>, <<BACKTICK>>, <<"$">>, <<">">>,
      <<"<">> }

HasForbiddenToken(c) == \E tok \in ForbiddenTokens : Occurs(tok, c)

ShellControlOperators ==
    { <<";">>, <<"&">>, <<"|">>, <<NL>>, <<BACKTICK>>, <<"$">>, <<">">>, <<"<">> }

RejectedResult ==
    [success |-> FALSE, output |-> <<>>, error |-> <<"Invalid Git command">>,
     executed |-> FALSE]

(* C1: every command line that execute hands to the subprocess layer is    *)
(* free of the shell's control operators: ; && || | a single & an embedded *)
(* newline, backtick, $ > and <.                                           *)
C1_NoShellControlOperator ==
    \A i \in 1..Len(exec.spawned) :
        \A op \in ShellControlOperators : ~Occurs(op, exec.spawned[i])

(* C2, as stated: a command that contains one of ; && || | ` $ > < makes   *)
(* execute raise the injection fault, and nothing is spawned.              *)
C2_AnyTokenRaises ==
    (IsExecuteCall /\ HasForbiddenToken(call.command))
        => (exec.pc = "thrown" /\ exec.spawned = <<>>)

(* C2, amended: a command that contains one of the tokens never reaches    *)
(* the subprocess layer; execute raises the injection fault for it when,   *)
(* once trimmed, it begins with git, and returns the rejected result       *)
(* (no fault) when it does not.                                            *)
C2_TokenNeverSpawned ==
    (IsExecuteCall /\ HasForbiddenToken(call.command))
        => /\ exec.spawned = <<>>
           /\ exec.pc \in {"thrown", "returned"}
           /\ BeginsWithGit(call.command)
                => /\ exec.pc = "thrown"
                   /\ exec.ret = <<>>
                   /\ Len(exec.thrown) = 1
                   /\ Head(exec.thrown[1]) = "Potentially dangerous character detected: "
                   /\ Tail(exec.thrown[1]) \in ForbiddenTokens
                   /\ Occurs(Tail(exec.thrown[1]), call.command)
           /\ ~BeginsWithGit(call.command)
                => exec.pc = "returned" /\ exec.ret = <<RejectedResult>>

C2_Witness ==
    /\ IsExecuteCall
    /\ call.command = git \o <<" ", "s", "t", "a", "t", "u", "s">> \o <<">">>
    /\ ~call.dryRun
    /\ exec.pc = "thrown"
    /\ exec.spawned = <<>>

(* C3: an empty command, a command of white space only, and a command that *)
(* once trimmed does not begin with git make execute return at once with   *)
(* success=false and executed=false: nothing is spawned, nothing raised.   *)
C3_RejectedAtOnce ==
    (IsExecuteCall
        /\ (call.command = <<>>
            \/ (\A i \in 1..Len(call.command) : call.command[i] \in {" ", TAB, NL})
            \/ ~BeginsWithGit(call.command)))
        => /\ exec.pc = "returned"
           /\ exec.thrown = <<>>
           /\ exec.spawned = <<>>
           /\ Len(exec.ret) = 1
           /\ exec.ret[1].success = FALSE
           /\ exec.ret[1].executed = FALSE

C3_Witness ==
    /\ IsExecuteCall
    /\ call.command = <<"s", "t", "a", "t", "u", "s">>
    /\ ~call.dryRun
    /\ exec.pc = "returned"

(* C4, as stated: for a non-empty command c that does not start with git,  *)
(* execute(c) spawns what execute("git " + c) spawns and gives its result. *)
C4_AutoPrefixed ==
    (IsExecuteCall /\ call.command # <<>> /\ ~startsWith(call.command, git))
        => LET other == executeEnter(git \o <<" ">> \o call.command, call.dryRun)
           IN  /\ exec.spawned = other.spawned
               /\ exec.spawned = <<>> => exec = other

(* C4, amended: execute never prefixes a command.  A command that, once    *)
(* trimmed, does not begin with git is rejected (success=false,            *)
(* executed=false, "Invalid Git command") and nothing is spawned, and      *)
(* every command line handed to the subprocess layer is the trimmed input. *)
C4_NeverPrefixed ==
    IsExecuteCall
        => /\ ~BeginsWithGit(call.command)
                => exec.pc = "returned" /\ exec.ret = <<RejectedResult>>
                   /\ exec.spawned = <<>>
           /\ \A i \in 1..Len(exec.spawned) : exec.spawned[i] = Normalized(call.command)

C4_Witness ==
    /\ IsExecuteCall
    /\ call.command = <<" ">> \o git \o <<" ", "s", "t", "a", "t", "u", "s">>
    /\ exec.spawned = << git \o <<" ", "s", "t", "a", "t", "u", "s">> >>

(* C5: a dry run of a command that begins with git and holds no forbidden  *)
(* token spawns nothing and returns success=true, executed=false and the   *)
(* output "Would execute: " followed by the trimmed command.               *)
C5_DryRunPreviews ==
    (IsExecuteCall /\ call.dryRun /\ BeginsWithGit(call.command)
        /\ ~HasForbiddenToken(call.command))
        => /\ exec.pc = "returned"
           /\ exec.spawned = <<>>
           /\ exec.thrown = <<>>
           /\ Len(exec.ret) = 1
           /\ exec.ret[1].success = TRUE
           /\ exec.ret[1].executed = FALSE
           /\ exec.ret[1].output = <<"Would execute: ">> \o Normalized(call.command)

C5_Witness ==
    /\ call.op = "execute"
    /\ call.dryRun
    /\ call.command = <<" ">> \o git \o <<" ", "R", "E", "B", "A", "S", "E">> \o <<" ">>
    /\ exec.pc = "returned"
    /\ exec.ret[1].executed = FALSE

(* The six destructive substrings, in the order of the table.              *)
SixSubstrings ==
    << <<"r", "e", "s", "e", "t", " ", "-", "-", "h", "a", "r", "d">>,
       <<"c", "l", "e", "a", "n", " ", "-", "f">>,
       <<"p", "u", "s", "h", " ", "-", "-", "f", "o", "r", "c", "e">>,
       <<"r", "e", "b", "a", "s", "e">>,
       <<"c", "h", "e", "r", "r", "y", "-", "p", "i", "c", "k">>,
       <<"m", "e", "r", "g", "e", " ", "-", "-", "n", "o", "-", "f", "f">> >>

SixWarnings ==
    << "This will discard all uncommitted changes",
       "This will delete untracked files permanently",
       "This will overwrite remote history",
       "This will rewrite commit history",
       "This may create conflicts",
       "This will create a merge commit" >>

Matching(c) == {i \in 1..6 : Occurs(SixSubstrings[i], toLowerCase(c))}

(* The k-th smallest element of a set of numbers.                          *)
Kth(S, k) == CHOOSE x \in S : Cardinality({y \in S : y < x}) = k - 1

(* C6: isDestructiveCommand(c) is true exactly when the lowercase form of  *)
(* c contains one of the six substrings, and the warnings computed for c   *)
(* hold one entry per matching substring, all of them, in table order.     *)
C6_DestructiveTable ==
    /\ (call.op = "isDestructiveCommand" /\ exec.pc # "idle")
        => destr = <<Matching(call.command) # {}>>
    /\ (IsExecuteCall /\ (exec.pc = "execAsync" \/ (exec.pc = "returned"
                            /\ "warnings" \in DOMAIN exec.ret[1])))
        => LET m == Matching(call.command)
               w == IF exec.pc = "execAsync" THEN exec.warnings ELSE exec.ret[1].warnings
           IN  /\ Len(w) = Cardinality(m)
               /\ \A k \in 1..Len(w) :
                    w[k] = <<WARNSIGN, VS16, " ", SixWarnings[Kth(m, k)]>>

C6_Witness ==
    /\ call.op = "execute"
    /\ exec.pc = "returned"
    /\ exec.ret[1].executed
    /\ Len(exec.ret[1].warnings) = 2
    /\ exec.ret[1].warnings[1] = <<WARNSIGN, VS16, " ", "This will overwrite remote history">>
    /\ exec.ret[1].warnings[2] = <<WARNSIGN, VS16, " ", "This will rewrite commit history">>
    /\ call.command = git \o <<" ", "R", "E", "B", "A", "S", "E">>
                          \o <<" ", "p", "u", "s", "h", " ", "-", "-", "F", "o", "r", "c", "e">>

----------------------------------------------------------------------------
(* The vocabulary of the statements about generateCommand.                 *)

IsGenerateCall == gen.pc # "idle"

FailureShape(r) ==
    /\ r.command = Null
    /\ r.explanation.t = "string"
    /\ r.explanation.s # <<>>
    /\ Head(r.explanation.s) = "Failed to generate command: "
    /\ r.warning.t = "string"
    /\ r.warning.s # <<>>
    /\ Head(r.warning.s) = "Please try again"

(* The registry as the documentation gives it: key, provider, model.       *)
RegistryProvider ==
    [k \in {"1", "2", "3", "4"} |-> IF k = "1" THEN "gemini" ELSE "groq"]

RegistryModel ==
    [k \in {"1", "2", "3", "4"} |->
        CASE k = "1" -> "gemini-2.0-flash"
          [] k = "2" -> "llama-3.1-8b-instant"
          [] k = "3" -> "llama-3.3-70b-versatile"
          [] k = "4" -> "deepseek-r1-distill-llama-70b"]

(* The entry a model choice stands for: its own when it is a key of the    *)
(* registry, entry "1" when it is unset or unrecognized.                   *)
EntryOf(modelChoice) ==
    IF modelChoice \in {"1", "2", "3", "4"} THEN modelChoice ELSE "1"

NotConfigured(key) == key = Undefined \/ key = Str(<<>>)

KeyOf(engine, provider) ==
    IF provider = "gemini" THEN engine.geminiApiKey ELSE engine.groqApiKey

(* C8: generateCommand never throws to its caller; it resolves to one      *)
(* value, and after a configuration error, a network failure or a provider *)
(* error that value is command=null, an explanation that starts with       *)
(* "Failed to generate command: " and a warning that starts with           *)
(* "Please try again".                                                     *)
C8_NeverThrows ==
    IsGenerateCall
        => /\ gen.pc \in {"post", "returned"}
           /\ gen.thrown = <<>>
           /\ gen.pc = "returned" => Len(gen.ret) = 1
           /\ (gen.pc = "returned"
                /\ (gen.requests = <<>> \/ gcall.reply \in {"rejected", "null"}))
                => FailureShape(gen.ret[1])

C8_Witness ==
    /\ gen.pc = "returned"
    /\ gcall.reply = "rejected"
    /\ gen.provider = "groq"
    /\ gen.ret[1].explanation =
         Str(<<"Failed to generate command: ", "Error", ": ", "Groq API error: ",
               "AxiosError", ": ", "Network Error">>)

(* C9: when the key of the provider that the model choice resolves to is   *)
(* not configured, generateCommand returns command=null and issues no HTTP *)
(* request, whether or not the other provider's key is configured.         *)
C9_NoKeyNoRequest ==
    (IsGenerateCall
        /\ NotConfigured(KeyOf(gcall.engine,
                               RegistryProvider[EntryOf(gcall.modelChoice)])))
        => /\ gen.requests = <<>>
           /\ gen.pc = "returned"
           /\ gen.ret[1].command = Null

C9_Witness ==
    /\ IsGenerateCall
    /\ gcall.modelChoice = "3"
    /\ gcall.engine = [geminiApiKey |-> Str(<<"k">>), groqApiKey |-> Str(<<>>)]
    /\ gen.pc = "returned"
    /\ gen.requests = <<>>

(* C10: every model choice (unset, a key of the registry, or any other     *)
(* string) resolves to one of the four entries, an unrecognized one to     *)
(* entry "1", and generateCommand enters that entry's adapter with that    *)
(* entry's model; the resolution produces no failure.                      *)
C10_AlwaysResolves ==
    IsGenerateCall
        => /\ gen.provider = RegistryProvider[EntryOf(gcall.modelChoice)]
           /\ \A i \in 1..Len(gen.requests) :
                /\ gen.requests[i].provider = RegistryProvider[EntryOf(gcall.modelChoice)]
                /\ gen.requests[i].model = RegistryModel[EntryOf(gcall.modelChoice)]
           /\ (gen.pc = "returned" /\ gen.ret[1].explanation.t = "string"
                /\ Len(gen.ret[1].explanation.s) >= 4)
                => gen.ret[1].explanation.s[4] # "Unknown provider: "

----------------------------------------------------------------------------
(* The vocabulary of the statements about the orchestrators.               *)

InRequest == req.pc # "idle"

(* execute was called for the generated command, not as a preview.         *)
HandedToExecute == req.exec.pc # "idle" /\ ~(req.flow = "panel" /\ req.dryRun)

GeneratedDestructive ==
    req.aiResponse.command.t = "string" /\ Matching(req.aiResponse.command.s) # {}

CancelledOut ==
    IF req.flow = "panel"
    THEN [type |-> "cancelled", message |-> <<"Operation cancelled.">>]
    ELSE [type |-> "showInformationMessage", message |-> <<"Operation cancelled.">>]

(* C7: in both orchestrators a request that is no preview hands the        *)
(* generated command to execute only if the command is not destructive, or *)
(* autoConfirm is on, or the user chose Execute in the dialog; after       *)
(* Cancel or a dismissed dialog nothing is spawned and the request ends    *)
(* with 'Operation cancelled.'.                                            *)
C7_ConfirmedBeforeExecute ==
    InRequest
        => /\ HandedToExecute
                => \/ ~GeneratedDestructive
                   \/ req.config.autoConfirm
                   \/ req.answer = "Execute"
           /\ req.answer \in {"Cancel", "dismissed"}
                => /\ req.exec = NoCall
                   /\ req.pc = "done"
                   /\ req.out # <<>>
                   /\ req.out[Len(req.out)] = CancelledOut
           /\ (req.pc = "dialog" \/ req.answer # "none")
                => GeneratedDestructive /\ ~req.config.autoConfirm
                   /\ ~(req.flow = "panel" /\ req.dryRun)

C7_Witness ==
    /\ req.flow = "palette"
    /\ req.answer = "dismissed"
    /\ req.pc = "done"
    /\ req.aiResponse.command = Str(<<"g", "i", "t", " ", "p", "u", "s", "h", " ", "-",
                                      "-", "f", "o", "r", "c", "e">>)

----------------------------------------------------------------------------
(* The vocabulary of the statements about parseAIResponse.                 *)

IsParseCall == parse.pc = "returned" /\ parse.response.t = "string"

(* The JSON objects with a "command" key that a text is, or contains.      *)
Embedded(text) ==
    {i \in 1..Len(JsonBodies) :
        \E p \in Prefixes, x \in Suffixes : text = p \o JsonBodies[i].text \o x}

(* A line of the text begins, after its white space, with "git ".          *)
HasGitLine(text) ==
    \E i \in 1..Len(text) :
        /\ i = 1 \/ text[i - 1] = NL
        /\ LET rest == DropLeading(SubSeq(text, i, Len(text)))
           IN  Len(rest) >= 4 /\ SubSeq(rest, 1, 4) = <<"g", "i", "t", " ">>

HasBacktickGit(text) == Occurs(<<BACKTICK, "g", "i", "t", " ">>, text)

(* C11: for a text that is, or contains, a well-formed JSON object with a  *)
(* "command" key, parseAIResponse returns that object's command,           *)
(* explanation and warning, whatever prose or 'git ' lines surround it.    *)
C11_JsonFirst ==
    IsParseCall
        => \A i \in Embedded(parse.response.s) :
              parse.ret = <<AIResponse(JsonBodies[i].command, JsonBodies[i].explanation,
                                       JsonBodies[i].warning)>>

(* C12: for a text that holds no JSON object, no line that begins with     *)
(* 'git ' and no backtick-delimited 'git ' fragment, parseAIResponse       *)
(* returns command=null, the text itself as explanation and the warning    *)
(* "Failed to parse AI response".                                          *)
C12_UnparsableKeepsText ==
    (IsParseCall
        /\ Embedded(parse.response.s) = {}
        /\ ~Occurs(<<"{">>, parse.response.s)
        /\ ~HasGitLine(parse.response.s)
        /\ ~HasBacktickGit(parse.response.s))
        => parse.ret = <<AIResponse(Null, parse.response,
                                    Str(<<"Failed to parse AI response">>))>>

(* C13: the command that parseAIResponse returns is null, or a string      *)
(* without leading or trailing white space.                                *)
C13_CommandTrimmed ==
    IsParseCall
        => \/ parse.ret[1].command = Null
           \/ /\ parse.ret[1].command.t = "string"
              /\ Normalized(parse.ret[1].command.s) = parse.ret[1].command.s

----------------------------------------------------------------------------
(* The outcomes of execute.                                                *)

Zero == [kind |-> "number", num |-> 0]

(* The four shapes of an ExecutionResult r.                                *)
ShapeRejected(r) ==
    /\ ~r.success /\ ~r.executed
    /\ "return_code" \notin DOMAIN r
    /\ exec.spawned = <<>>

ShapeDryRun(r) ==
    /\ r.success /\ ~r.executed
    /\ "return_code" \notin DOMAIN r
    /\ exec.spawned = <<>>

ShapeExitedZero(r) ==
    /\ r.success /\ r.executed
    /\ "return_code" \in DOMAIN r /\ r.return_code = Zero
    /\ Len(exec.spawned) = 1
    /\ r.output \in Stdouts

ShapeFailed(r) ==
    /\ ~r.success /\ ~r.executed
    /\ "return_code" \in DOMAIN r /\ r.return_code # Zero
    /\ Len(exec.spawned) = 1
    /\ \E error \in ExecErrors :
        /\ r.output = error.stdout
        /\ r.error \in {error.stderr, error.message}
        /\ r.error # <<>>

(* C14: a call of execute on a command without a forbidden token raises   *)
(* nothing; once it has settled it has returned one ExecutionResult of     *)
(* exactly one of the four shapes (rejected, dry run, exited zero,         *)
(* failed); executed=true comes with success=true and return_code=0, and   *)
(* a dry run with executed=false.                                          *)
C14_FourShapes ==
    (IsExecuteCall /\ ~HasForbiddenToken(call.command))
        => /\ exec.pc \in {"execAsync", "returned"}
           /\ exec.thrown = <<>>
           /\ exec.pc = "execAsync" => exec.ret = <<>>
           /\ exec.pc = "returned"
                => /\ Len(exec.ret) = 1
                   /\ LET r == exec.ret[1]
                      IN  /\ Cardinality({k \in 1..4 :
                                CASE k = 1 -> ShapeRejected(r)
                                  [] k = 2 -> ShapeDryRun(r)
                                  [] k = 3 -> ShapeExitedZero(r)
                                  [] k = 4 -> ShapeFailed(r)}) = 1
                          /\ ShapeRejected(r) <=> ~BeginsWithGit(call.command)
                          /\ r.executed => (r.success /\ r.return_code = Zero)
                          /\ call.dryRun => ~r.executed

C14_Witness ==
    /\ call.op = "execute"
    /\ ~call.dryRun
    /\ exec.pc = "returned"
    /\ exec.spawned = << git \o <<" ", "s", "t", "a", "t", "u", "s">> >>
    /\ ~exec.ret[1].success
    /\ exec.ret[1].output = <<"o", "k">>
    /\ exec.ret[1].return_code = [kind |-> "number", num |-> 1]

(* The warnings due for a command: one per matching substring, in table    *)
(* order.                                                                  *)
DueWarnings(c) ==
    [k \in 1..Cardinality(Matching(c)) |->
        <<WARNSIGN, VS16, " ", SixWarnings[Kth(Matching(c), k)]>>]

(* C15: for a command that passes validation and matches a destructive     *)
(* substring, the ExecutionResult carries the warnings due for it after a  *)
(* dry run, after a successful run and after a failed run alike.           *)
C15_WarningsDelivered ==
    (IsExecuteCall /\ exec.pc = "returned"
        /\ BeginsWithGit(call.command) /\ ~HasForbiddenToken(call.command)
        /\ Matching(call.command) # {})
        => /\ "warnings" \in DOMAIN exec.ret[1]
           /\ exec.ret[1].warnings # <<>>
           /\ exec.ret[1].warnings = DueWarnings(call.command)

C15_Witness ==
    /\ call.op = "execute"
    /\ ~call.dryRun
    /\ call.command = git \o <<" ", "r", "e", "s", "e", "t", " ", "-", "-", "h", "a",
                               "r", "d">>
    /\ exec.pc = "returned"
    /\ ~exec.ret[1].success
    /\ exec.ret[1].return_code = [kind |-> "number", num |-> 128]
    /\ exec.ret[1].warnings =
         << <<WARNSIGN, VS16, " ", "This will discard all uncommitted changes">> >>

----------------------------------------------------------------------------
(* The vocabulary of the statements about analyzeContext.                  *)

IsSnapshot == snap.pc = "returned"

NineFields ==
    {"branch", "is_dirty", "staged_files", "unstaged_files", "untracked_files",
     "is_detached", "remote_status", "last_commit", "stash_count"}

(* The four counts and the query each one comes from.                      *)
CountQuery ==
    [f \in {"staged_files", "unstaged_files", "untracked_files", "stash_count"} |->
        CASE f = "staged_files" -> "cached"
          [] f = "unstaged_files" -> "diff"
          [] f = "untracked_files" -> "lsFiles"
          [] f = "stash_count" -> "stash"]

(* The number of non-empty lines of an output.                             *)
NonEmptyLines(out) ==
    Cardinality({i \in 1..Len(out) : out[i] # NL /\ (i = 1 \/ out[i - 1] = NL)})

(* C16: when the probe succeeds, the failure of a single field query does  *)
(* not abort the others: every query is issued and the snapshot has its    *)
(* nine fields and no error field.                                         *)
C16_FieldsIndependent ==
    (IsSnapshot /\ snap.repo.status.ok)
        => /\ DOMAIN snap.ret[1] = NineFields
           /\ Len(snap.queries) = Cardinality(QueryNames)

(* C17: each of the four counts equals the number of non-empty lines of    *)
(* its query's output.                                                     *)
C17_CountsLines ==
    (IsSnapshot /\ "error" \notin DOMAIN snap.ret[1])
        => \A f \in DOMAIN CountQuery :
              snap.ret[1][f] = NonEmptyLines(snap.repo[CountQuery[f]].out)

(* C18: a count whose query printed nothing is 0, and all four counts are  *)
(* at least 0.                                                             *)
C18_CountsNotNegative ==
    (IsSnapshot /\ "error" \notin DOMAIN snap.ret[1])
        => \A f \in DOMAIN CountQuery :
              /\ snap.ret[1][f] >= 0
              /\ snap.repo[CountQuery[f]].out = <<>> => snap.ret[1][f] = 0

C18_Witness ==
    /\ IsSnapshot
    /\ "error" \notin DOMAIN snap.ret[1]
    /\ snap.repo.cached.out = <<>>
    /\ snap.ret[1].staged_files = 0
    /\ snap.repo.stash.out = Listing(MaxFiles)

(* C19: when the probe fails analyzeContext issues no other query and      *)
(* returns the snapshot that holds only the error "Not a Git repository";  *)
(* every snapshot holds either the error alone or the nine data fields     *)
(* and no error.                                                           *)
C19_ErrorOrData ==
    IsSnapshot
        => /\ Len(snap.ret) = 1
           /\ ~snap.repo.status.ok
                => /\ snap.ret[1] = [error |-> <<"Not a Git repository">>]
                   /\ snap.queries = <<"status">>
           /\ DOMAIN snap.ret[1] = {"error"} \/ DOMAIN snap.ret[1] = NineFields

C19_Witness ==
    /\ IsSnapshot
    /\ ~snap.repo.status.ok
    /\ snap.queries = <<"status">>
    /\ DOMAIN snap.ret[1] = {"error"}

----------------------------------------------------------------------------
(* Preview requests of the panel.                                          *)

IsPreview == InRequest /\ req.flow = "panel" /\ req.dryRun

CommandGenerated == req.pc = "done" /\ ~Falsy(req.aiResponse.command)

LastOut == req.out[Len(req.out)]

----------------------------------------------------------------------------
(* Claims about the panel's webview (SpecPanel).                           *)

(* No request is in progress.                                              *)
Quiescent == \A s \in Slots : reqs[s].pc = "idle"

(* C21: the repository status shown in the panel follows the repository:   *)
(* after a request that executed a command a fresh snapshot is delivered,  *)
(* so once the requests have ended the status shown is never older than    *)
(* the last executed command.                                              *)
C21_StatusFollowsRepository ==
    (panel.loaded /\ Quiescent) => panel.current

----------------------------------------------------------------------------
(* Claims about the orchestrators, continued (SpecFlow).                   *)

(* generateCommand has been called in the request.                         *)
GenerateCalled == InRequest /\ req.gen.pc # "idle"

(* C22: in both orchestrators a snapshot with an error field ends the      *)
(* request: generateCommand is never called with such a snapshot and no    *)
(* command is executed in a request whose snapshot had an error.           *)
C22_ErrorSnapshotShortCircuits ==
    /\ GenerateCalled => "error" \notin DOMAIN req.context
    /\ (InRequest /\ "error" \in DOMAIN analyzeContext(req.repo)) => req.exec.pc = "idle"

----------------------------------------------------------------------------
(* Claims about generateCommand, continued (SpecGen).                      *)

(* C23: when the HTTP call of the provider fails, or succeeds with a       *)
(* response whose text payload is missing or empty, generateCommand        *)
(* returns the failure shape: command=null, an explanation starting with   *)
(* "Failed to generate command: " and a 'please try again' warning.        *)
C23_MalformedIsFailure ==
    (gen.pc = "returned" /\ gcall.reply \in {"rejected", "notext"})
        => FailureShape(gen.ret[1])

----------------------------------------------------------------------------
(* Claims about the heuristic parsing of parseAIResponse (SpecParse).      *)

(* A text without a brace is parsed line by line.                          *)
Heuristic == IsParseCall /\ ~Occurs(<<"{">>, parse.response.s)

Begins(pat, line) == Len(line) >= Len(pat) /\ SubSeq(line, 1, Len(pat)) = pat

(* The lines of the text parsed, without their surrounding white space.    *)
TextLines == LET ls == split(parse.response.s) IN [i \in 1..Len(ls) |-> Normalized(ls[i])]

(* Line i starts with "Warning:" or "Note:" or contains the warning glyph. *)
WarningLine(i) ==
    \/ Begins(<<"W", "a", "r", "n", "i", "n", "g", ":">>, TextLines[i])
    \/ Begins(<<"N", "o", "t", "e", ":">>, TextLines[i])
    \/ Occurs(<<WARNSIGN, VS16>>, TextLines[i])

(* Line i contains the word 'warning' in any case.                         *)
MentionsWarning(i) ==
    Occurs(<<"w", "a", "r", "n", "i", "n", "g">>, toLowerCase(TextLines[i]))

(* C24: in heuristic parsing the warning is the first line that starts     *)
(* with "Warning:" or "Note:" or contains the warning glyph; without such  *)
(* a line it is the first line that contains the word 'warning'.           *)
C24_FirstWarningWins ==
    Heuristic
        => LET strong == {i \in DOMAIN TextLines : WarningLine(i)}
               weak == {i \in DOMAIN TextLines : MentionsWarning(i)}
           IN  /\ strong # {} => parse.ret[1].warning = Str(TextLines[SetMin(strong)])
               /\ (strong = {} /\ weak # {})
                    => parse.ret[1].warning = Str(TextLines[SetMin(weak)])

(* The fragment of the line between the first "`git " that a backtick      *)
(* closes and that backtick, <<>> without one.                             *)
Fragment(line) ==
    LET next(i) == {j \in (i + 1)..Len(line) : line[j] = BACKTICK}
        opens == {i \in 1..Len(line) :
                    /\ i + 5 <= Len(line)
                    /\ SubSeq(line, i, i + 4) = <<BACKTICK, "g", "i", "t", " ">>
                    /\ line[i + 5] # BACKTICK
                    /\ next(i) # {}}
    IN  IF opens = {} THEN <<>>
        ELSE SubSeq(line, SetMin(opens) + 1, SetMin(next(SetMin(opens))) - 1)

GitPrefix == <<"g", "i", "t", " ">>

(* Line i is a candidate for the command.                                  *)
Candidate(i) == Begins(GitPrefix, TextLines[i]) \/ Fragment(TextLines[i]) # <<>>

(* c without a backtick at its start and at its end, with "git " put       *)
(* before it when it does not start with it.                               *)
Unquoted(c) ==
    LET a == IF c # <<>> /\ Head(c) = BACKTICK THEN Tail(c) ELSE c
        b == IF a # <<>> /\ a[Len(a)] = BACKTICK THEN SubSeq(a, 1, Len(a) - 1) ELSE a
    IN  IF Begins(GitPrefix, b) THEN b ELSE GitPrefix \o b

(* The command that candidate line i gives.                                *)
CommandOfLine(i) ==
    Unquoted(Normalized(IF Begins(GitPrefix, TextLines[i]) THEN TextLines[i]
                        ELSE Fragment(TextLines[i])))

(* The text up to the end of its line k.                                   *)
RECURSIVE UpToLine(_, _)
UpToLine(text, k) ==
    IF text = <<>> THEN <<>>
    ELSE IF Head(text) = NL
    THEN IF k = 1 THEN <<>> ELSE <<NL>> \o UpToLine(Tail(text), k - 1)
    ELSE <<Head(text)>> \o UpToLine(Tail(text), k)

(* C25: in heuristic parsing the command comes from the first line that    *)
(* starts with 'git ' or contains a backtick-delimited fragment starting   *)
(* with 'git '; later candidate lines never replace it; the command has    *)
(* its surrounding backticks stripped and starts with 'git '; the lines    *)
(* after the command line add nothing to the explanation; and the example  *)
(* of the specification gives command "git log --oneline", the warning     *)
(* line and an empty explanation.                                          *)
C25_FirstCommandWins ==
    Heuristic
        => LET candidates == {i \in DOMAIN TextLines : Candidate(i)}
               ret == parse.ret[1]
           IN  /\ candidates = {} => ret.command = Null
               /\ candidates # {}
                    => LET first == SetMin(candidates)
                       IN  /\ ret.command = Str(CommandOfLine(first))
                           /\ Begins(GitPrefix, ret.command.s)
                           /\ ret.explanation =
                                parseAIResponse(Str(UpToLine(parse.response.s, first))).explanation
               /\ parse.response.s =
                    <<"Y", "o", "u", " ", "s", "h", "o", "u", "l", "d", " ",
                      "r", "u", "n", " ", BACKTICK, "g", "i", "t", " ", "l",
                      "o", "g", " ", "-", "-", "o", "n", "e", "l", "i", "n",
                      "e", BACKTICK, ".", NL, "W", "a", "r", "n", "i", "n",
                      "g", ":", " ", "c", "h", "e", "c", "k", " ", "b", "r",
                      "a", "n", "c", "h", " ", "f", "i", "r", "s", "t", ".">>
                    => ret = AIResponse(Str(<<"g", "i", "t", " ", "l", "o", "g", " ", "-", "-",
                                              "o", "n", "e", "l", "i", "n", "e">>),
                                        Str(<<>>),
                                        Str(<<"W", "a", "r", "n", "i", "n", "g", ":", " ", "c",
                                              "h", "e", "c", "k", " ", "b", "r", "a", "n", "c",
                                              "h", " ", "f", "i", "r", "s", "t", ".">>))

(* A text with two candidate lines that give different commands, the first *)
(* of them returned, and lines after the command line.                     *)
C25_Witness ==
    /\ Heuristic
    /\ LET candidates == {i \in DOMAIN TextLines : Candidate(i)}
       IN  /\ Cardinality(candidates) >= 2
           /\ \E i, j \in candidates : CommandOfLine(i) # CommandOfLine(j)
           /\ SetMax(candidates) < Len(TextLines)
           /\ parse.ret[1].command = Str(CommandOfLine(SetMin(candidates)))

----------------------------------------------------------------------------
(* Claims about the orchestrators, continued (SpecFlow).                   *)

(* C26: one attempt only.  In every request at most one HTTP request is    *)
(* issued and at most one subprocess is spawned, whatever the outcomes of  *)
(* the external calls; and a subprocess that fails or is killed by the     *)
(* 30 s timeout ends the request with a failed result (success false, not  *)
(* executed, a return code that is not 0), reported at once.               *)
C26_OneAttempt ==
    /\ [](InRequest => /\ Len(req.gen.requests) <= 1
                       /\ Len(req.exec.spawned) <= 1)
    /\ [][RequestSubprocessFails
            => /\ req'.pc = "done"
               /\ req'.gen = req.gen
               /\ req'.exec.spawned = req.exec.spawned
               /\ ~req'.exec.ret[1].success
               /\ ~req'.exec.ret[1].executed
               /\ req'.exec.ret[1].return_code # Zero
               /\ Len(req'.out) = Len(req.out) + 1
               /\ LET last == req'.out[Len(req'.out)]
                  IN  IF req.flow = "panel"
                      THEN last = [type |-> "executionResult", result |-> req'.exec.ret[1]]
                      ELSE last.type = "showErrorMessage"]_vars

(* A request ended by the timeout's kill (error.code null) of its one      *)
(* subprocess, after its one HTTP request.                                 *)
C26_Witness ==
    /\ req.pc = "done"
    /\ Len(req.gen.requests) = 1
    /\ Len(req.exec.spawned) = 1
    /\ req.exec.pc = "returned"
    /\ ~req.exec.ret[1].success
    /\ req.exec.ret[1].output = <<"o", "k">>
    /\ req.exec.ret[1].return_code = [kind |-> "number", num |-> 1]

----------------------------------------------------------------------------
(* Claims about overlapping requests (SpecPanel).                          *)

(* The request r uses nothing but what is its own: its snapshot is that of *)
(* its repository, its HTTP request carries its key and the prompt of its  *)
(* user text and snapshot, the command it hands to the subprocess layer is *)
(* the one generated for it, the dialog and its answer are about that      *)
(* command, and the result it reports is that of its own execute call.     *)
OwnOnly(r) ==
    /\ r.gen.pc # "idle"
        => /\ r.context = analyzeContext(r.repo)
           /\ \A i \in DOMAIN r.gen.requests :
                /\ r.gen.requests[i].prompt = buildPrompt(r.userInput, r.context)
                /\ r.gen.requests[i].key \in {r.config.geminiApiKey, r.config.groqApiKey}
    /\ r.pc \in {"dialog", "execAsync"} => r.aiResponse = r.gen.ret[1]
    /\ r.exec.pc # "idle"
        => /\ r.aiResponse = r.gen.ret[1]
           /\ r.aiResponse.command.t = "string"
           /\ r.exec.spawned # <<>>
                => r.exec.spawned = <<Normalized(r.aiResponse.command.s)>>
           /\ ~(r.flow = "panel" /\ r.dryRun)
                => \/ Matching(r.aiResponse.command.s) = {}
                   \/ r.config.autoConfirm
                   \/ r.answer = "Execute"
    /\ (r.pc = "dialog" \/ r.answer # "none")
        => /\ Matching(r.aiResponse.command.s) # {}
           /\ ~r.config.autoConfirm
    /\ r.answer \in {"Cancel", "dismissed"} => r.exec = NoCall
    /\ (r.pc = "done" /\ r.exec.pc = "returned" /\ r.flow = "panel")
        => r.out[Len(r.out)].result = r.exec.ret[1]

----------------------------------------------------------------------------
(* Claims about execute, continued (SpecExec).                             *)

(* The first word of a command line: what precedes its first white space   *)
(* or "&", which ends a word for the shell as white space does.            *)
FirstWord(line) ==
    LET spaces == {i \in 1..Len(line) : line[i] \in WhiteSpace \cup {"&"}}
    IN  IF spaces = {} THEN line ELSE SubSeq(line, 1, SetMin(spaces) - 1)

(* C28: every command line that execute hands to the subprocess layer      *)
(* invokes the git tool: its first word is exactly 'git'.                  *)
C28_SpawnsOnlyGit ==
    \A i \in DOMAIN exec.spawned : FirstWord(exec.spawned[i]) = <<"g", "i", "t">>

----------------------------------------------------------------------------
(* Claims about the messages of the panel flow (SpecFlowFair).             *)

TerminalTypes == {"error", "previewResult", "executionResult", "cancelled"}

(* The positions in the messages sent of those of the given types.         *)
Sent(types) == {i \in DOMAIN req.out : req.out[i].type \in types}

PanelInFlight == req.flow = "panel" /\ req.pc \notin {"idle", "done"}

PanelDone == req.flow = "panel" /\ req.pc = "done"

(* The order of the messages of a panel request.                           *)
MessagesInOrder ==
    req.flow = "panel"
        => /\ Cardinality(Sent(TerminalTypes)) <= 1
           /\ \A i \in Sent(TerminalTypes) : i = Len(req.out) /\ req.pc = "done"
           /\ req.pc = "done" => Cardinality(Sent(TerminalTypes)) = 1
           /\ \A i \in Sent({"commandGenerated"}) :
                /\ \E j \in Sent({"thinking"}) : j < i
                /\ ~Falsy(req.out[i].command)
                /\ req.out[i].command = req.aiResponse.command
           /\ \A i \in Sent({"previewResult", "executionResult", "cancelled"}) :
                \E j \in Sent({"commandGenerated"}) : j < i

(* C29: in the panel flow, with every external call returning or failing,  *)
(* each executeCommand message leads to exactly one terminal message out   *)
(* of error, previewResult, executionResult and cancelled, also when       *)
(* execute raises the injection fault; thinking precedes commandGenerated, *)
(* commandGenerated is sent only for a non-empty command and before        *)
(* previewResult, executionResult or cancelled; nothing follows the        *)
(* terminal message.                                                       *)
C29_OneTerminalMessage ==
    /\ []MessagesInOrder
    /\ PanelInFlight ~> (PanelDone /\ Cardinality(Sent(TerminalTypes)) = 1)

(* A panel request that ended in the catch of the injection fault, after   *)
(* thinking and commandGenerated.                                          *)
C29_Witness ==
    /\ PanelDone
    /\ req.exec.pc = "thrown"
    /\ Len(req.out) = 3
    /\ req.out[1].type = "thinking"
    /\ req.out[2].type = "commandGenerated"
    /\ req.out[3].type = "error"

----------------------------------------------------------------------------
(* Claims about the requests of the panel (SpecPanel).                     *)

(* The panel requests whose terminal message has not been sent yet.        *)
PanelRequestsInFlight ==
    {s \in Slots : reqs[s].flow = "panel" /\ reqs[s].pc \notin {"idle", "done"}}

(* C30: the panel serializes its own requests.  From the executeCommand    *)
(* message of a request to its terminal message the webview posts no       *)
(* second executeCommand message, by the Execute button, the Preview       *)
(* button or Ctrl+Enter, and the loading state is set exactly while a      *)
(* request is in flight: two panel requests never run at the same time.    *)
C30_PanelSerializes ==
    /\ Cardinality(PanelRequestsInFlight) <= 1
    /\ panel.loading <=> PanelRequestsInFlight # {}

====
